---- MODULE Spec2Model ----
(***************************************************************************)
(* Model of pageserver/src/pgdatadir_mapping.rs: the relational mapping    *)
(* layer on top of the versioned key-value store (Timeline).               *)
(*                                                                         *)
(* One timeline, one ingest writer holding at most one DatadirModification *)
(* and page-service readers that query committed storage through           *)
(* Version::LsnRange.                                                      *)
(***************************************************************************)
EXTENDS Integers, Sequences, FiniteSets, TLC

\* ------------------------------------------------------------------ bounds
MaxLsn == 3          \* LSNs are 1..MaxLsn
MaxBlocks == 1       \* relation sizes are 0..MaxBlocks
MaxOps == 2          \* put_* calls issued by the ingest writer over a run
MaxScriptOps == 4    \* put_* calls issued on the single relation of SpecScript
MaxReads == 1        \* get_rel_size calls issued by readers over a run
MaxMigrateOps == 3   \* put_* calls issued over a run of SpecMigrate
MaxBlkno == 4        \* block numbers given to find_gaps are 0..MaxBlkno
MaxBatch == 3        \* requests of one get_rel_page_at_lsn_batched call
MaxReqLsn == 2       \* the requests of a batch are at LSNs 1..MaxReqLsn
MaxCommitLsn == 3    \* commit records are at LSNs 8 * (1..MaxCommitLsn)
MaxTimestamp == 3    \* commit timestamps are 1..MaxTimestamp
MaxImportOps == 3    \* put_* calls issued over a run of SpecImport
MaxAuxOps == 4       \* put_file calls issued over a run of SpecAux
MaxIngestOps == 2    \* ingest_batch and put_rel_drops calls over a run of SpecIngest
MaxBatchBlkno == 2   \* the blocks written by an ingested batch are 1..MaxBatchBlkno
MaxMetas == 2        \* block writes of one ingested batch
MaxRaceOps == 3      \* put_* calls issued over a run of SpecRace
MaxDropOps == 3      \* put_* calls issued over a run of SpecDropped
MaxDbOps == 3        \* put_* and drop_dbdir calls issued over a run of SpecDropDb
MaxInitOps == 3      \* put_rel_creation calls issued over a run of SpecInitFails
FLUSH_THRESHOLD == 10000   \* flush does nothing below this many pending blocks

Lsns == 1..MaxLsn
InitLsn == CHOOSE l \in Lsns : \A x \in Lsns : l <= x   \* where init_empty was committed
Sizes == 0..MaxBlocks
LsnMAX == MaxLsn + 1              \* Lsn::MAX, the "latest" request_lsn

\* ------------------------------------------------------------ relation tags
MAIN_FORKNUM == "main"
FSM_FORKNUM == "fsm"
Dbs == {"db"}                     \* the (spcnode, dbnode) pairs of the model
TheDb == CHOOSE d \in Dbs : TRUE
\* RelTag {spcnode, dbnode, relnode, forknum}; relnode 0 is the invalid one.
RelTag(db, relnode, forknum) == [db |-> db, relnode |-> relnode, forknum |-> forknum]
InvalidTag == RelTag(TheDb, 0, MAIN_FORKNUM)
TheRel == RelTag(TheDb, 1, MAIN_FORKNUM)
ValidTags == {TheRel, RelTag(TheDb, 1, FSM_FORKNUM)}
Tags == ValidTags \cup {InvalidTag}

\* -------------------------------------------------------------------- keys
\* Key: one record shape for every category, as the fixed-width Key.
MkKey(kind, db, relnode, forknum) ==
    [kind |-> kind, db |-> db, relnode |-> relnode, forknum |-> forknum]
DBDIR_KEY == MkKey("dbdir", "", 0, MAIN_FORKNUM)
CONTROLFILE_KEY == MkKey("controlfile", "", 0, MAIN_FORKNUM)
CHECKPOINT_KEY == MkKey("checkpoint", "", 0, MAIN_FORKNUM)
rel_dir_to_key(db) == MkKey("reldir", db, 0, MAIN_FORKNUM)
rel_size_to_key(tag) == MkKey("relsize", tag.db, tag.relnode, tag.forknum)
rel_tag_sparse_key(tag) == MkKey("sparse", tag.db, tag.relnode, tag.forknum)
relmap_file_key(db) == MkKey("relmap", db, 0, MAIN_FORKNUM)
\* aux_file::encode_aux_file_key hashes the path into the aux key range: two
\* of the three paths of the model share a key.
AuxPaths == {"foo/bar1", "foo/bar2", "pg_stat/x"}
encode_aux_file_key(path) ==
    MkKey("aux", "", IF path = "pg_stat/x" THEN 2 ELSE 1, MAIN_FORKNUM)
AuxKeys == {encode_aux_file_key(p) : p \in AuxPaths}     \* Key::metadata_aux_key_range()
\* The keys that are ever written: no key of a tag with relnode 0 is.
Keys == {DBDIR_KEY, CONTROLFILE_KEY, CHECKPOINT_KEY} \cup {rel_dir_to_key(d) : d \in Dbs}
          \cup AuxKeys
          \cup {relmap_file_key(d) : d \in Dbs}
          \cup {rel_size_to_key(t) : t \in ValidTags}
          \cup {rel_tag_sparse_key(t) : t \in ValidTags}
SparseKeys == {rel_tag_sparse_key(t) : t \in ValidTags}

\* ------------------------------------------------------------------ values
\* Value::Image(bytes) / Value::WalRecord.  The bytes of an image are kept
\* decoded: n is the number they hold, s the set they hold, empty says
\* whether the byte string has length 0.
Image(n, s, empty) == [t |-> "Image", n |-> n, s |-> s, empty |-> empty]
WalRecord == [t |-> "WalRecord", n |-> 0, s |-> {}, empty |-> FALSE]
NoValue == [t |-> "None", n |-> 0, s |-> {}, empty |-> TRUE]

SizeImage(nblocks) == Image(nblocks, {}, FALSE)        \* nblocks.to_le_bytes()
DirImage(entries) == Image(0, entries, FALSE)          \* DbDirectory / RelDirectory ::ser
FileImage(n) == Image(n, {}, FALSE)                    \* opaque file content
\* RelDirExists::encode: Exists is the one-byte marker, Removed the empty
\* tombstone.
RelDirExists_encode(e) == IF e = "Exists" THEN Image(1, {}, FALSE) ELSE Image(0, {}, TRUE)
\* RelDirExists::decode_option: None is Removed, the marker is Exists, any
\* other bytes fail to decode.
RelDirExists_decode_option(opt) ==
    IF opt.t = "None" THEN "Removed"
    ELSE IF opt.n = 1 /\ ~opt.empty THEN "Exists"
    ELSE "DecodeError"

\* Results of fallible reads: err = "none" carries the value v.
Ok(v) == [err |-> "none", v |-> v]
Err(e) == [err |-> e, v |-> NoValue]

\* --------------------------------------------------------------- variables
VARIABLES
    \* Timeline (committed side)
    store,              \* Key -> (Lsn -> Value | NoValue): the versioned store
    deleted,            \* set of <<tag, lsn>> handed to writer.delete_batch
    last_record_lsn,    \* committed high-water mark
    logical_size,       \* current logical size, in blocks
    dir_count,          \* directory-kind -> entries counter
    rel_size_latest_cache,    \* tag -> [has, lsn, nblocks]
    rel_size_snapshot_cache,  \* set of <<lsn, tag, nblocks>>
    v2_status,          \* RelSizeMigration
    migrated_lsn,       \* 0 is None
    v2_enabled,         \* get_rel_size_v2_enabled()
    fault,              \* the read of committed storage that currently fails
    data_pages,         \* the page versions [key, lsn, img] the writer has been given
    \* DatadirModification (writer side)
    open,               \* a modification object exists
    lsn,
    pending_lsns,
    pending_metadata_pages,   \* Key -> Seq([lsn, val])
    pending_data_batch,       \* set of [key, lsn, img]; {} is None
    pending_deletions,        \* Seq(<<tag, lsn>>)
    pending_nblocks,
    pending_directory_entries, \* Seq(<<kind, update, n>>)
    is_importing_pgdata,
    \* observation
    lastOp,             \* the call that made the last step and its result
    writerCalls,        \* the writer.* calls made by the last commit, in order
    held,               \* the LSNs set_lsn replaced since begin_modification
    done,               \* how many of them a successful commit has passed on
    life,               \* tag -> "created" in the uncommitted modification,
                        \* "undone" (created, then dropped) or "none"
    nops,               \* put_* calls so far
    nreads,             \* reader calls so far
    \* a call of a function that keeps its state in locals
    frame               \* its arguments, its locals and its result

tlVars == <<store, deleted, last_record_lsn, logical_size, dir_count, v2_status,
            migrated_lsn, v2_enabled, fault, data_pages>>
cacheVars == <<rel_size_latest_cache, rel_size_snapshot_cache>>
modVars == <<open, lsn, pending_lsns, pending_metadata_pages, pending_data_batch, pending_deletions,
             pending_nblocks, pending_directory_entries, is_importing_pgdata>>
obsVars == <<lastOp, writerCalls, held, done, life, nops, nreads, frame>>
vars == <<tlVars, cacheVars, modVars, obsVars>>

DirKinds == {"Db", "Rel", "RelV2"}

\* No function call is in flight.
NoCall == [fn |-> "none"]

\* A call and its outcome: old is the size of the relation and nb the pending
\* block-count delta the call found (put_* calls on one relation only).
Op(op, tag, n, res) ==
    [op |-> op, tag |-> tag, tags |-> {}, n |-> n, res |-> res, old |-> 0, nb |-> 0]

Max(a, b) == IF a >= b THEN a ELSE b

\* ------------------------------------------------------- Timeline::get
\* A fault of the storage below: the reads of one sparse key fail ("io") or
\* return bytes that are no RelDirExists marker ("garbage").
NoFault == [kind |-> "none", key |-> DBDIR_KEY]
\* A fault of the component that persists the RelSizeMigration status:
\* update_rel_size_v2_status returns an error and persists nothing.
StatusFault == [kind |-> "status", key |-> DBDIR_KEY]
Faults == {NoFault} \cup [kind : {"io", "garbage"}, key : SparseKeys]
Garbage == Image(2, {}, FALSE)

\* The value of key visible at LSN l: the version with the highest LSN <= l.
\* MissingKey if there is none.
TimelineGetIn(st, key, l) ==
    IF key \notin Keys THEN Err("MissingKey")
    ELSE IF fault.kind = "io" /\ fault.key = key THEN Err("Other")
    ELSE LET have == {x \in Lsns : x <= l /\ st[key][x].t # "None"}
         IN IF have = {} THEN Err("MissingKey")
            ELSE IF fault.kind = "garbage" /\ fault.key = key THEN Ok(Garbage)
            ELSE Ok(st[key][CHOOSE x \in have : \A y \in have : y <= x])

TimelineGet(key, l) == TimelineGetIn(store, key, l)

\* ------------------------------------------------------------ Version
\* Version::LsnRange(LsnRange {effective_lsn, request_lsn}) | Version::Modified
LsnRange(effective_lsn, request_lsn) ==
    [kind |-> "LsnRange", effective_lsn |-> effective_lsn, request_lsn |-> request_lsn]
Modified == [kind |-> "Modified", effective_lsn |-> 0, request_lsn |-> 0]

Version_is_latest(version) ==
    IF version.kind = "LsnRange" THEN version.request_lsn = LsnMAX ELSE TRUE

Version_get_lsn(version) ==
    IF version.kind = "LsnRange" THEN version.effective_lsn ELSE lsn

\* ------------------------------------------- the modification's overlay
\* The state a put_* handler reads and writes, threaded through its steps:
\* the pending fields of the DatadirModification and the parts of the
\* Timeline the handlers mutate directly (latest size cache, v2 status).
Cx == [pages |-> pending_metadata_pages,
       data |-> pending_data_batch,
       dels |-> pending_deletions,
       nblocks |-> pending_nblocks,
       dirents |-> pending_directory_entries,
       latest |-> rel_size_latest_cache,
       status |-> v2_status,
       mlsn |-> migrated_lsn,
       dropped |-> {},
       err |-> "none"]

Fail(cx, e) == [cx EXCEPT !.err = e]

\* DatadirModification::get on the overlay `pages`: the last pending value
\* of the key if there is one (an Image, else an error), the committed
\* store at max(last_record_lsn, lsn) otherwise.
GetIn(pages, key) ==
    LET values == IF key \in Keys THEN pages[key] ELSE <<>>
    IN IF Len(values) > 0
       THEN (IF values[Len(values)].val.t = "Image"
             THEN Ok(values[Len(values)].val)
             ELSE Err("Other"))
       ELSE TimelineGet(key, Max(last_record_lsn, lsn))

ModGet(key) == GetIn(pending_metadata_pages, key)

\* sparse_get: an empty value and MissingKey both become None.
SparseOf(res) ==
    IF res.err = "none" THEN (IF res.v.empty THEN Ok(NoValue) ELSE res)
    ELSE IF res.err = "MissingKey" THEN Ok(NoValue)
    ELSE res

SparseGetIn(pages, key) == SparseOf(GetIn(pages, key))

\* Faulty variant of put_metadata: a second write at the LSN of the key's
\* last pending value is dropped instead of replacing it.
put_metadata_keeps_first(pages, key, val) ==
    LET values == pages[key]
    IN IF Len(values) > 0 /\ values[Len(values)].lsn = lsn
       THEN pages
       ELSE [pages EXCEPT ![key] = Append(values, [lsn |-> lsn, val |-> val])]

\* Faulty variant of put_metadata: every write is appended.
put_metadata_appends(pages, key, val) ==
    [pages EXCEPT ![key] = Append(pages[key], [lsn |-> lsn, val |-> val])]

\* DatadirModification::put_metadata: replace the last value when it has the
\* current LSN, append otherwise.
put_metadata(pages, key, val) ==
    LET values == pages[key]
        entry == [lsn |-> lsn, val |-> val]
    IN IF Len(values) > 0 /\ values[Len(values)].lsn = lsn
       THEN [pages EXCEPT ![key] = [values EXCEPT ![Len(values)] = entry]]
       ELSE [pages EXCEPT ![key] = Append(values, entry)]

Put(cx, key, val) == [cx EXCEPT !.pages = put_metadata(cx.pages, key, val)]

\* DatadirModification::delete
Delete(cx, tag) == [cx EXCEPT !.dels = Append(cx.dels, <<tag, lsn>>)]

PushDirEntry(cx, kind, update, n) ==
    [cx EXCEPT !.dirents = Append(cx.dirents, <<kind, update, n>>)]

\* ------------------------------------------------- relation size cache
NoEntry == [has |-> FALSE, lsn |-> 0, nblocks |-> 0]
None == [some |-> FALSE, n |-> 0]
Some(n) == [some |-> TRUE, n |-> n]

\* Timeline::get_cached_rel_size
get_cached_rel_size(latest, snapshot, tag, version) ==
    LET l == Version_get_lsn(version)
    IN IF latest[tag].has /\ l >= latest[tag].lsn
       THEN Some(latest[tag].nblocks)
       ELSE IF \E e \in snapshot : e[1] = l /\ e[2] = tag
       THEN Some((CHOOSE e \in snapshot : e[1] = l /\ e[2] = tag)[3])
       ELSE None

\* Timeline::set_cached_rel_size
set_cached_rel_size(latest, tag, l, nblocks) ==
    [latest EXCEPT ![tag] = [has |-> TRUE, lsn |-> l, nblocks |-> nblocks]]

\* Timeline::remove_cached_rel_size
remove_cached_rel_size(latest, tag) == [latest EXCEPT ![tag] = NoEntry]

\* Timeline::update_cached_rel_size, the latest-cache arm
update_latest(latest, tag, l, nblocks) ==
    IF latest[tag].has
    THEN (IF l >= latest[tag].lsn
          THEN [latest EXCEPT ![tag] = [has |-> TRUE, lsn |-> l, nblocks |-> nblocks]]
          ELSE latest)
    ELSE [latest EXCEPT ![tag] = [has |-> TRUE, lsn |-> l, nblocks |-> nblocks]]

\* Timeline::update_cached_rel_size, the snapshot-cache arm (a map insert)
update_snapshot(snapshot, tag, l, nblocks) ==
    {e \in snapshot : ~(e[1] = l /\ e[2] = tag)} \cup {<<l, tag, nblocks>>}

\* ------------------------------------------------------ read algorithms
\* Version::get
VersionGet(pages, version, key) ==
    IF version.kind = "LsnRange" THEN TimelineGet(key, version.effective_lsn)
    ELSE GetIn(pages, key)

OkB(b) == [err |-> "none", b |-> b]
ErrB(e) == [err |-> e, b |-> FALSE]

DirContainsDb(dbdirs, db) == \E e \in dbdirs : e[1] = db

\* Timeline::get_rel_exists_in_reldir_v1 (no pre-deserialized directory)
get_rel_exists_in_reldir_v1(pages, tag, version) ==
    LET buf == VersionGet(pages, version, rel_dir_to_key(tag.db))
    IN IF buf.err # "none" THEN ErrB(buf.err)
       ELSE OkB(<<tag.relnode, tag.forknum>> \in buf.v.s)

\* Timeline::get_rel_exists_in_reldir_v2
get_rel_exists_in_reldir_v2(pages, tag, version) ==
    LET opt == SparseOf(VersionGet(pages, version, rel_tag_sparse_key(tag)))
    IN IF opt.err # "none" THEN ErrB(opt.err)
       ELSE IF RelDirExists_decode_option(opt.v) = "DecodeError" THEN ErrB("Other")
       ELSE OkB(RelDirExists_decode_option(opt.v) = "Exists")

\* A result together with whether the v2 keyspace was read to produce it.
Traced(r, v2read) == r @@ [v2read |-> v2read]
Untraced(r) == [f \in DOMAIN r \ {"v2read"} |-> r[f]]

\* Faulty variants of the read policy: while Migrating a v2 error is
\* returned, while Migrated the v1 answer is used, below migrated_lsn the
\* v2 keyspace is consulted.
ExistsMigrating_strict(v1, v2) ==
    IF v1.err # "none" THEN v1 ELSE IF v2.err # "none" THEN v2 ELSE OkB(v1.b)
ExistsMigrated_v1(v1, v2) == Traced(v1, FALSE)
ExistsBelow_v2(v1, v2) == Traced(v2, TRUE)

\* get_rel_exists_in_reldir, the Migrating arm: the v2 lookup runs after
\* the v1 lookup succeeded; a mismatch or a v2 error only warns.
ExistsMigrating(v1, v2) ==
    IF v1.err # "none" THEN v1
    ELSE IF v2.err = "none" /\ v1.b = v2.b THEN OkB(v1.b)
    ELSE IF v2.err = "none" THEN OkB(v1.b)      \* warn: inconsistent v1/v2
    ELSE OkB(v1.b)                              \* warn: failed to get rel exists in v2

\* get_rel_exists_in_reldir, the Migrated arm and the arm below migrated_lsn
ExistsMigrated(v1, v2) == Traced(v2, TRUE)
ExistsBelow(v1, v2) == Traced(v1, FALSE)

\* get_rel_exists_in_reldir, the match on the status
ExistsDispatch(status, mlsn, version, v1, v2) ==
    IF status = "Legacy" THEN Traced(v1, FALSE)
    ELSE IF Version_get_lsn(version) < mlsn THEN ExistsBelow(v1, v2)
    ELSE IF status = "Migrating" THEN Traced(ExistsMigrating(v1, v2), v1.err = "none")
    ELSE ExistsMigrated(v1, v2)

\* Timeline::get_rel_exists_in_reldir
get_rel_exists_in_reldir(pages, latest, snapshot, status, mlsn, tag, version, buf) ==
    IF tag.relnode = 0 THEN Traced(ErrB("InvalidRelnode"), FALSE)
    ELSE IF get_cached_rel_size(latest, snapshot, tag, version).some
    THEN Traced(OkB(TRUE), FALSE)
    ELSE IF buf.err # "none" THEN Traced(ErrB(buf.err), FALSE)
    ELSE IF ~DirContainsDb(buf.v.s, tag.db) THEN Traced(OkB(FALSE), FALSE)
    ELSE ExistsDispatch(status, mlsn, version,
                        get_rel_exists_in_reldir_v1(pages, tag, version),
                        get_rel_exists_in_reldir_v2(pages, tag, version))

\* Timeline::get_rel_exists
get_rel_exists(pages, latest, snapshot, status, mlsn, tag, version) ==
    Untraced(get_rel_exists_in_reldir(pages, latest, snapshot, status, mlsn, tag, version,
                                      VersionGet(pages, version, DBDIR_KEY)))

\* Timeline::get_rel_size_in_reldir with allow_missing = false, that is
\* get_rel_size.  fromStore says the size was read from the store, in which
\* case the caller's cache is updated with it.
SizeRes(e, n, fromStore) == [err |-> e, n |-> n, fromStore |-> fromStore]

get_rel_size(pages, latest, snapshot, status, mlsn, tag, version) ==
    LET cached == get_cached_rel_size(latest, snapshot, tag, version)
        exists == get_rel_exists(pages, latest, snapshot, status, mlsn, tag, version)
        buf == VersionGet(pages, version, rel_size_to_key(tag))
    IN IF tag.relnode = 0 THEN SizeRes("InvalidRelnode", 0, FALSE)
       ELSE IF cached.some THEN SizeRes("none", cached.n, FALSE)
       ELSE IF tag.forknum = FSM_FORKNUM /\ exists.err # "none"
       THEN SizeRes(exists.err, 0, FALSE)
       ELSE IF tag.forknum = FSM_FORKNUM /\ ~exists.b THEN SizeRes("none", 0, FALSE)
       ELSE IF buf.err # "none" THEN SizeRes(buf.err, 0, FALSE)
       ELSE SizeRes("none", buf.v.n, TRUE)

OkS(s) == [err |-> "none", s |-> s]
ErrS(e) == [err |-> e, s |-> {}]

\* Timeline::list_rels_v1
list_rels_v1(pages, db, version) ==
    LET buf == VersionGet(pages, version, rel_dir_to_key(db))
    IN IF buf.err # "none" THEN ErrS(buf.err)
       ELSE OkS({RelTag(db, e[1], e[2]) : e \in buf.v.s})

\* Timeline::list_rels_v2: a scan of the committed store at the version's
\* LSN.  A value that cannot be read or decoded fails the call; tombstones
\* are skipped.
ScanSparse(t, version) == TimelineGet(rel_tag_sparse_key(t), Version_get_lsn(version))
RelDirExists_decode(v) ==
    IF v.empty THEN "Removed" ELSE IF v.n = 1 THEN "Exists" ELSE "DecodeError"

list_rels_v2(db, version) ==
    LET found == {t \in ValidTags : t.db = db /\ ScanSparse(t, version).err # "MissingKey"}
    IN IF \E t \in found : ScanSparse(t, version).err # "none" THEN ErrS("Other")
       ELSE IF \E t \in found : RelDirExists_decode(ScanSparse(t, version).v) = "DecodeError"
       THEN ErrS("Other")
       ELSE OkS({t \in found : RelDirExists_decode(ScanSparse(t, version).v) = "Exists"})

\* Faulty variant of list_rels while Migrating: the v2 listing is returned.
ListMigrating_v2(v1, v2) == IF v1.err # "none" THEN v1 ELSE v2

\* list_rels, the Migrating arm: a mismatch or a v2 error only warns.
ListMigrating(v1, v2) ==
    IF v1.err # "none" THEN v1
    ELSE IF v2.err = "none" /\ v1.s = v2.s THEN OkS(v1.s)
    ELSE IF v2.err = "none" THEN OkS(v1.s)      \* warn: inconsistent v1/v2
    ELSE OkS(v1.s)                              \* warn: failed to list rels in v2

\* list_rels, the match on the status
ListDispatch(status, mlsn, version, v1, v2) ==
    IF status = "Legacy" THEN Traced(v1, FALSE)
    ELSE IF Version_get_lsn(version) < mlsn THEN Traced(v1, FALSE)
    ELSE IF status = "Migrating" THEN Traced(ListMigrating(v1, v2), v1.err = "none")
    ELSE Traced(v2, TRUE)

list_rels_traced(pages, status, mlsn, db, version) ==
    ListDispatch(status, mlsn, version, list_rels_v1(pages, db, version),
                 list_rels_v2(db, version))

\* Timeline::list_rels
list_rels(pages, status, mlsn, db, version) ==
    Untraced(list_rels_traced(pages, status, mlsn, db, version))

\* ------------------------------------------------------ write handlers
\* Faulty variants of maybe_enable_rel_size_v2: one asks for the
\* initialization whatever the status, one also during an import.
maybe_enable_rel_size_v2_again(status, is_create) ==
    [current_status |-> status,
     initialize |-> v2_enabled /\ is_create /\ ~is_importing_pgdata]

maybe_enable_rel_size_v2_import(status, is_create) ==
    IF status = "Legacy" /\ v2_enabled
    THEN [current_status |-> "Legacy", initialize |-> is_create]
    ELSE [current_status |-> status, initialize |-> FALSE]

\* DatadirModification::maybe_enable_rel_size_v2
maybe_enable_rel_size_v2(status, is_create) ==
    IF status = "Legacy" /\ v2_enabled
    THEN [current_status |-> "Legacy", initialize |-> is_create /\ ~is_importing_pgdata]
    ELSE [current_status |-> status, initialize |-> FALSE]

\* DatadirModification::initialize_rel_size_v2_keyspace: copy every entry of
\* every database's v1 RelDirectory to its sparse key, then persist the
\* status.  A failing read stops the copy with the keys written so far left
\* pending.
RECURSIVE CopyRelDirs(_, _)
CopyRelDirs(cx, dbs) ==
    IF dbs = {} THEN cx
    ELSE LET db == CHOOSE d \in dbs : TRUE
             buf == GetIn(cx.pages, rel_dir_to_key(db))
             exist == RelDirExists_encode("Exists")
             copied == [cx EXCEPT !.pages =
                          [k \in Keys |->
                             IF k.kind = "sparse" /\ k.db = db
                                  /\ <<k.relnode, k.forknum>> \in buf.v.s
                             THEN put_metadata(cx.pages, k, exist)[k]
                             ELSE cx.pages[k]]]
         IN IF buf.err # "none" THEN Fail(cx, buf.err)
            ELSE CopyRelDirs(copied, dbs \ {db})

\* Faulty variant of the initialization: the status is persisted without
\* the copy.
initialize_rel_size_v2_keyspace_nocopy(cx, dbdirs) ==
    [cx EXCEPT !.status = "Migrating", !.mlsn = lsn]

initialize_rel_size_v2_keyspace(cx, dbdirs) ==
    LET copied == CopyRelDirs(cx, {e[1] : e \in dbdirs})
    IN IF copied.err # "none" THEN copied
       ELSE IF fault.kind = "status" THEN Fail(copied, "MaybeRelSizeV2Error")
       ELSE [copied EXCEPT !.status = "Migrating", !.mlsn = lsn]

\* Faulty variant of put_rel_creation_v1: the directory is not checked for
\* the relation.
put_rel_creation_v1_unguarded(cx, rel, dbdir_exists) ==
    LET key == rel_dir_to_key(rel.db)
        buf == IF dbdir_exists THEN GetIn(cx.pages, key) ELSE Ok(DirImage({}))
    IN IF buf.err # "none" THEN Fail(cx, buf.err)
       ELSE Put(PushDirEntry(cx, "Rel", "Add", 1), key,
                DirImage(buf.v.s \cup {<<rel.relnode, rel.forknum>>}))

\* DatadirModification::put_rel_creation_v1
put_rel_creation_v1(cx, rel, dbdir_exists) ==
    LET key == rel_dir_to_key(rel.db)
        buf == IF dbdir_exists THEN GetIn(cx.pages, key) ELSE Ok(DirImage({}))
        cx1 == IF dbdir_exists THEN cx ELSE PushDirEntry(cx, "Rel", "Set", 0)
        cx2 == PushDirEntry(cx1, "Rel", "Add", 1)
    IN IF buf.err # "none" THEN Fail(cx, buf.err)
       ELSE IF <<rel.relnode, rel.forknum>> \in buf.v.s
       THEN Fail(cx, "RelationAlreadyExists")
       ELSE Put(cx2, key, DirImage(buf.v.s \cup {<<rel.relnode, rel.forknum>>}))

\* DatadirModification::put_rel_creation_v2
put_rel_creation_v2(cx, rel, dbdir_exists) ==
    LET key == rel_tag_sparse_key(rel)
        opt == SparseGetIn(cx.pages, key)
        cx1 == Put(cx, key, RelDirExists_encode("Exists"))
        cx2 == IF dbdir_exists THEN cx1 ELSE PushDirEntry(cx1, "RelV2", "Set", 0)
    IN IF opt.err # "none" THEN Fail(cx, opt.err)
       ELSE IF RelDirExists_decode_option(opt.v) = "DecodeError"
       THEN Fail(cx, "InvalidRelDirKey")
       ELSE IF RelDirExists_decode_option(opt.v) = "Exists"
       THEN Fail(cx, "RelationAlreadyExists")
       ELSE PushDirEntry(cx2, "RelV2", "Add", 1)

\* The tail of put_rel_creation: the size key, the block count, the cache.
PutRelSizeNew(cx, rel, nblocks) ==
    LET cx1 == Put(cx, rel_size_to_key(rel), SizeImage(nblocks))
    IN [cx1 EXCEPT !.nblocks = cx.nblocks + nblocks,
                   !.latest = set_cached_rel_size(cx.latest, rel, lsn, nblocks)]

\* DatadirModification::put_rel_creation, statement by statement; each stage
\* receives what the statements before it left.
\* The v2 directory write: a failure only warns while Migrating.
\* Faulty variant: the v2 failure is returned in every status.
CreationV2_fatal(cx, v2, rel, nblocks, current_status) ==
    IF v2.err = "none" THEN PutRelSizeNew(v2, rel, nblocks) ELSE v2

CreationV2(cx, v2, rel, nblocks, current_status) ==
    IF v2.err = "none" THEN PutRelSizeNew(v2, rel, nblocks)
    ELSE IF current_status = "Migrated" THEN v2
    ELSE PutRelSizeNew(cx, rel, nblocks)

\* After the v1 directory write, whose error is returned.
CreationV1(cx, rel, nblocks, dbdir_exists, current_status) ==
    IF cx.err # "none" THEN cx
    ELSE IF current_status = "Legacy" THEN PutRelSizeNew(cx, rel, nblocks)
    ELSE CreationV2(cx, put_rel_creation_v2(cx, rel, dbdir_exists), rel, nblocks,
                    current_status)

\* Faulty variant of the directory writes of put_rel_creation: the v1
\* directory is written in every status.
CreationDirs_always_v1(cx, rel, nblocks, dbdir_exists, current_status) ==
    CreationV1(put_rel_creation_v1(cx, rel, dbdir_exists),
               rel, nblocks, dbdir_exists, current_status)

CreationDirs(cx, rel, nblocks, dbdir_exists, current_status) ==
    CreationV1(IF current_status # "Migrated"
               THEN put_rel_creation_v1(cx, rel, dbdir_exists)
               ELSE cx,
               rel, nblocks, dbdir_exists, current_status)

\* The keyspace initialization: a failure only warns and leaves the status.
CreationInit(cx, rel, nblocks, dbdir_exists, v2_mode, init) ==
    CreationDirs(IF ~v2_mode.initialize THEN cx ELSE [init EXCEPT !.err = "none"],
                 rel, nblocks, dbdir_exists,
                 IF v2_mode.initialize /\ init.err = "none" THEN "Migrating"
                 ELSE v2_mode.current_status)

CreationMode(cx, rel, nblocks, dbdir_exists, dbdirs) ==
    CreationInit(cx, rel, nblocks, dbdir_exists,
                 maybe_enable_rel_size_v2(cx.status, TRUE),
                 initialize_rel_size_v2_keyspace(cx, dbdirs))

\* The database directory: a database seen for the first time is added.
CreationDbdir(cx, rel, nblocks, buf) ==
    LET dbdir_exists == DirContainsDb(buf.v.s, rel.db)
        dbdirs == IF dbdir_exists THEN buf.v.s ELSE buf.v.s \cup {<<rel.db, FALSE>>}
    IN IF buf.err # "none" THEN Fail(cx, buf.err)
       ELSE CreationMode(IF dbdir_exists THEN cx
                         ELSE Put(PushDirEntry(cx, "Db", "Set", Cardinality(dbdirs)),
                                  DBDIR_KEY, DirImage(dbdirs)),
                         rel, nblocks, dbdir_exists, dbdirs)

put_rel_creation(cx, rel, nblocks) ==
    IF rel.relnode = 0 THEN Fail(cx, "LogicalError")
    ELSE CreationDbdir(cx, rel, nblocks, GetIn(cx.pages, DBDIR_KEY))

\* Faulty variants of the size handlers: a truncation that leaves the block
\* count delta alone, an extension that writes whatever size it is given.
put_rel_truncation_keeps_delta(cx, rel, nblocks) ==
    LET old == GetIn(cx.pages, rel_size_to_key(rel))
    IN IF rel.relnode = 0 THEN Fail(cx, "InvalidRelnode")
       ELSE IF old.err # "none" THEN Fail(cx, old.err)
       ELSE [Put(cx, rel_size_to_key(rel), SizeImage(nblocks))
                EXCEPT !.latest = set_cached_rel_size(cx.latest, rel, lsn, nblocks)]

put_rel_extend_unguarded(cx, rel, nblocks) ==
    LET old == GetIn(cx.pages, rel_size_to_key(rel))
    IN IF rel.relnode = 0 THEN Fail(cx, "InvalidRelnode")
       ELSE IF old.err # "none" THEN Fail(cx, old.err)
       ELSE [Put(cx, rel_size_to_key(rel), SizeImage(nblocks))
                EXCEPT !.latest = set_cached_rel_size(cx.latest, rel, lsn, nblocks),
                       !.nblocks = cx.nblocks + (nblocks - old.v.n)]

\* DatadirModification::put_rel_truncation
put_rel_truncation(cx, rel, nblocks) ==
    LET exists == get_rel_exists(cx.pages, cx.latest, rel_size_snapshot_cache,
                                 cx.status, cx.mlsn, rel, Modified)
        old == GetIn(cx.pages, rel_size_to_key(rel))
        cx1 == Put(cx, rel_size_to_key(rel), SizeImage(nblocks))
    IN IF rel.relnode = 0 THEN Fail(cx, "InvalidRelnode")
       ELSE IF exists.err # "none" THEN Fail(cx, exists.err)
       ELSE IF ~exists.b THEN cx
       ELSE IF old.err # "none" THEN Fail(cx, old.err)
       ELSE [cx1 EXCEPT !.latest = set_cached_rel_size(cx.latest, rel, lsn, nblocks),
                        !.nblocks = cx.nblocks - (old.v.n - nblocks)]

\* DatadirModification::put_rel_extend
put_rel_extend(cx, rel, nblocks) ==
    LET old == GetIn(cx.pages, rel_size_to_key(rel))
        cx1 == Put(cx, rel_size_to_key(rel), SizeImage(nblocks))
    IN IF rel.relnode = 0 THEN Fail(cx, "InvalidRelnode")
       ELSE IF old.err # "none" THEN Fail(cx, old.err)
       ELSE IF nblocks > old.v.n
       THEN [cx1 EXCEPT !.latest = set_cached_rel_size(cx.latest, rel, lsn, nblocks),
                        !.nblocks = cx.nblocks + (nblocks - old.v.n)]
       ELSE cx

\* DatadirModification::put_rel_drop_v1.  st = [cx, rels, dirty]: the overlay,
\* the deserialized directory of one database and whether it changed.
\* A tag found in the directory: the counter, the size read, the cache
\* eviction and the range delete.
DropV1Size(st, tag, old) ==
    IF old.err # "none" THEN [st EXCEPT !.cx = Fail(st.cx, old.err)]
    ELSE [st EXCEPT !.cx = Delete([st.cx EXCEPT
                                     !.nblocks = st.cx.nblocks - old.v.n,
                                     !.latest = remove_cached_rel_size(st.cx.latest, tag)],
                                  tag)]

DropV1Tag(st, tag) ==
    IF <<tag.relnode, tag.forknum>> \notin st.rels THEN st
    ELSE DropV1Size([cx |-> [PushDirEntry(st.cx, "Rel", "Sub", 1)
                                EXCEPT !.dropped = st.cx.dropped \cup {tag}],
                     rels |-> st.rels \ {<<tag.relnode, tag.forknum>>},
                     dirty |-> TRUE],
                    tag, GetIn(st.cx.pages, rel_size_to_key(tag)))

RECURSIVE DropV1Tags(_, _)
DropV1Tags(st, tags) ==
    IF tags = {} \/ st.cx.err # "none" THEN st
    ELSE LET tag == CHOOSE t \in tags : TRUE
         IN DropV1Tags(DropV1Tag(st, tag), tags \ {tag})

\* One database: its directory is written back when a tag was removed.
DropV1Dir(st, db) ==
    IF st.cx.err = "none" /\ st.dirty
    THEN Put(st.cx, rel_dir_to_key(db), DirImage(st.rels))
    ELSE st.cx

DropV1Db(cx, db, tags, buf) ==
    IF buf.err # "none" THEN Fail(cx, buf.err)
    ELSE DropV1Dir(DropV1Tags([cx |-> cx, rels |-> buf.v.s, dirty |-> FALSE],
                              {t \in tags : t.db = db}),
                   db)

RECURSIVE DropV1Dbs(_, _, _)
DropV1Dbs(cx, dbs, tags) ==
    IF dbs = {} \/ cx.err # "none" THEN cx
    ELSE LET db == CHOOSE d \in dbs : TRUE
         IN DropV1Dbs(DropV1Db(cx, db, tags, GetIn(cx.pages, rel_dir_to_key(db))),
                      dbs \ {db}, tags)

put_rel_drop_v1(cx, tags) ==
    DropV1Dbs([cx EXCEPT !.dropped = {}], {t.db : t \in tags}, tags)

\* DatadirModification::put_rel_drop_v2
DropV2Tag(cx, tag, opt) ==
    IF opt.err # "none" THEN Fail(cx, opt.err)
    ELSE IF RelDirExists_decode_option(opt.v) = "DecodeError" THEN Fail(cx, "InvalidKey")
    ELSE IF RelDirExists_decode_option(opt.v) = "Exists"
    THEN Put([PushDirEntry(cx, "RelV2", "Sub", 1) EXCEPT !.dropped = cx.dropped \cup {tag}],
             rel_tag_sparse_key(tag), RelDirExists_encode("Removed"))
    ELSE cx

RECURSIVE DropV2Tags(_, _)
DropV2Tags(cx, tags) ==
    IF tags = {} \/ cx.err # "none" THEN cx
    ELSE LET tag == CHOOSE t \in tags : TRUE
         IN DropV2Tags(DropV2Tag(cx, tag, SparseGetIn(cx.pages, rel_tag_sparse_key(tag))),
                       tags \ {tag})

put_rel_drop_v2(cx, tags) == DropV2Tags([cx EXCEPT !.dropped = {}], tags)

\* Faulty variant of the v2 side of put_rel_drops: no tombstone is written
\* while Migrating.
DropsV2_late(cx, tags, current_status) ==
    IF cx.err # "none" \/ current_status # "Migrated" THEN cx
    ELSE put_rel_drop_v2(cx, tags)

\* DatadirModification::put_rel_drops: v1 unless Migrated, v2 unless Legacy;
\* while Migrating a v2 failure only warns.
DropsV2(cx, tags, current_status) ==
    IF cx.err # "none" \/ current_status = "Legacy" THEN cx
    ELSE IF current_status = "Migrating"
    THEN [put_rel_drop_v2(cx, tags) EXCEPT !.err = "none"]
    ELSE put_rel_drop_v2(cx, tags)

DropsV1(cx, tags, current_status) ==
    DropsV2(IF current_status # "Migrated" THEN put_rel_drop_v1(cx, tags) ELSE cx,
            tags, current_status)

put_rel_drops(cx, tags) ==
    DropsV1(cx, tags, maybe_enable_rel_size_v2(cx.status, FALSE).current_status)

\* DatadirModification::put_relmap_file.  r is the entry of the database in
\* the DbDirectory before the call: "none", "false" or "true".
RelmapEntry(dbdirs, db) ==
    IF <<db, TRUE>> \in dbdirs THEN "true"
    ELSE IF <<db, FALSE>> \in dbdirs THEN "false"
    ELSE "none"

\* A database seen for the first time: the counters and an empty v1
\* RelDirectory, whatever the status.
RelmapNewDb(cx, db, r, current_status) ==
    IF r # "none" THEN cx
    ELSE Put(PushDirEntry(IF current_status # "Legacy"
                          THEN PushDirEntry(cx, "RelV2", "Set", 0)
                          ELSE cx,
                          "Rel", "Set", 0),
             rel_dir_to_key(db), DirImage({}))

RelmapDbdir(cx, db, img, dbdirs, current_status) ==
    Put(RelmapNewDb(IF RelmapEntry(dbdirs, db) # "true"
                    THEN Put(cx, DBDIR_KEY,
                             DirImage({e \in dbdirs : e[1] # db} \cup {<<db, TRUE>>}))
                    ELSE cx,
                    db, RelmapEntry(dbdirs, db), current_status),
        relmap_file_key(db), FileImage(img))

put_relmap_file(cx, db, img) ==
    LET buf == GetIn(cx.pages, DBDIR_KEY)
    IN IF buf.err # "none" THEN Fail(cx, buf.err)
       ELSE RelmapDbdir(cx, db, img, buf.v.s,
                        maybe_enable_rel_size_v2(cx.status, FALSE).current_status)

\* ---------------------------------------------------- the storage writer
\* writer.put_batch: every pending value becomes the version of its key at
\* its LSN.
PutBatch(st, pages) ==
    [k \in Keys |->
        [l \in Lsns |->
            IF \E i \in 1..Len(pages[k]) : pages[k][i].lsn = l
            THEN pages[k][CHOOSE i \in 1..Len(pages[k]) :
                             /\ pages[k][i].lsn = l
                             /\ \A j \in 1..Len(pages[k]) : pages[k][j].lsn = l => j <= i].val
            ELSE st[k][l]]]

\* writer.update_directory_entries_count for one pending entry
ApplyDirEntry(counts, e) ==
    IF e[2] = "Set" THEN [counts EXCEPT ![e[1]] = e[3]]
    ELSE IF e[2] = "Add" THEN [counts EXCEPT ![e[1]] = counts[e[1]] + e[3]]
    ELSE [counts EXCEPT ![e[1]] = Max(0, counts[e[1]] - e[3])]

RECURSIVE ApplyDirEntries(_, _)
ApplyDirEntries(counts, entries) ==
    IF entries = <<>> THEN counts
    ELSE ApplyDirEntries(ApplyDirEntry(counts, Head(entries)), Tail(entries))

RECURSIVE MaxOfSeq(_, _)
MaxOfSeq(m, q) == IF q = <<>> THEN m ELSE MaxOfSeq(Max(m, Head(q)), Tail(q))

Call(name, arg) == [call |-> name, arg |-> arg]

EmptyPages == [k \in Keys |-> <<>>]
HasPending(pages) == \E k \in Keys : pages[k] # <<>>

\* ---------------------------------------------------------------- Init
\* A timeline on which init_empty has been committed at InitLsn, with the
\* persisted RelSizeMigration status it was loaded with.
Init ==
    /\ store = [k \in Keys |-> [l \in Lsns |->
                  IF k = DBDIR_KEY /\ l = InitLsn THEN DirImage({}) ELSE NoValue]]
    /\ deleted = {}
    /\ last_record_lsn = InitLsn
    /\ logical_size = 0
    /\ dir_count = [k \in DirKinds |-> 0]
    /\ rel_size_latest_cache = [t \in ValidTags |-> NoEntry]
    /\ rel_size_snapshot_cache = {}
    /\ v2_status \in {"Legacy", "Migrating", "Migrated"}
    /\ migrated_lsn = IF v2_status = "Legacy" THEN 0 ELSE InitLsn
    /\ v2_enabled \in (IF v2_status = "Legacy" THEN BOOLEAN ELSE {TRUE})
    /\ fault = NoFault
    /\ data_pages = {}
    /\ pending_data_batch = {}
    /\ open = FALSE
    /\ lsn = InitLsn
    /\ pending_lsns = <<>>
    /\ pending_metadata_pages = EmptyPages
    /\ pending_deletions = <<>>
    /\ pending_nblocks = 0
    /\ pending_directory_entries = <<>>
    /\ is_importing_pgdata = FALSE
    /\ lastOp = Op("init", InvalidTag, 0, "Ok")
    /\ writerCalls = <<>>
    /\ held = <<>>
    /\ done = 0
    /\ life = [t \in ValidTags |-> "none"]
    /\ nops = 0
    /\ nreads = 0
    /\ frame = NoCall

\* ------------------------------------------------------------- actions
\* The DatadirModification both constructors build.
NewModification(l, importing, name) ==
    /\ ~open
    /\ l > last_record_lsn
    /\ open' = TRUE
    /\ lsn' = l
    /\ pending_lsns' = <<>>
    /\ pending_metadata_pages' = EmptyPages
    /\ pending_data_batch' = {}
    /\ pending_deletions' = <<>>
    /\ pending_nblocks' = 0
    /\ pending_directory_entries' = <<>>
    /\ is_importing_pgdata' = importing
    /\ lastOp' = Op(name, InvalidTag, l, "Ok")
    /\ writerCalls' = <<>>
    /\ held' = <<>>
    /\ done' = 0
    /\ life' = [t \in ValidTags |-> "none"]
    /\ UNCHANGED <<frame, tlVars, cacheVars, nops, nreads>>

\* Timeline::begin_modification(l)
Begin(l) == NewModification(l, FALSE, "begin_modification")

\* Timeline::begin_modification_for_import(l)
BeginForImport(l) == NewModification(l, TRUE, "begin_modification_for_import")

\* Faulty variant of the drop: the pending data batch is handed to the writer
\* on the way out.
Abandon_writes ==
    /\ open
    /\ open' = FALSE
    /\ lsn' = InitLsn
    /\ pending_lsns' = <<>>
    /\ pending_metadata_pages' = EmptyPages
    /\ data_pages' = data_pages \cup pending_data_batch
    /\ pending_data_batch' = {}
    /\ pending_deletions' = <<>>
    /\ pending_nblocks' = 0
    /\ pending_directory_entries' = <<>>
    /\ is_importing_pgdata' = FALSE
    /\ lastOp' = Op("drop_modification", InvalidTag, 0, "Ok")
    /\ writerCalls' = <<>>
    /\ held' = <<>>
    /\ done' = 0
    /\ life' = [t \in ValidTags |-> "none"]
    /\ UNCHANGED <<frame, store, deleted, last_record_lsn, logical_size, dir_count, v2_status,
                   migrated_lsn, v2_enabled, fault, cacheVars, nops, nreads>>

\* The modification object is dropped without commit.
Abandon ==
    /\ open
    /\ open' = FALSE
    /\ lsn' = InitLsn
    /\ pending_lsns' = <<>>
    /\ pending_metadata_pages' = EmptyPages
    /\ pending_data_batch' = {}
    /\ pending_deletions' = <<>>
    /\ pending_nblocks' = 0
    /\ pending_directory_entries' = <<>>
    /\ is_importing_pgdata' = FALSE
    /\ lastOp' = Op("drop_modification", InvalidTag, 0, "Ok")
    /\ writerCalls' = <<>>
    /\ held' = <<>>
    /\ done' = 0
    /\ life' = [t \in ValidTags |-> "none"]
    /\ UNCHANGED <<frame, tlVars, cacheVars, nops, nreads>>

\* Faulty variants of set_lsn: one accepts an LSN that moves backwards, one
\* forgets the LSN it replaces.
set_lsn_backwards(l) == TRUE
set_lsn_forgets(l) == pending_lsns

\* DatadirModification::set_lsn
set_lsn_ok(l) == l >= lsn
set_lsn_pending(l) == IF l > lsn THEN Append(pending_lsns, lsn) ELSE pending_lsns

SetLsn(l) ==
    /\ open
    /\ IF set_lsn_ok(l)
       THEN /\ pending_lsns' = set_lsn_pending(l)
            /\ lsn' = l
            /\ held' = IF l # lsn THEN Append(held, lsn) ELSE held
            /\ lastOp' = Op("set_lsn", InvalidTag, l, "Ok")
       ELSE /\ UNCHANGED <<pending_lsns, lsn, held>>
            /\ lastOp' = Op("set_lsn", InvalidTag, l, "Err")
    /\ writerCalls' = <<>>
    /\ UNCHANGED <<frame, tlVars, cacheVars, open, pending_metadata_pages, pending_data_batch,
                   pending_deletions,
                   pending_nblocks, pending_directory_entries, is_importing_pgdata,
                   done, life, nops, nreads>>

\* What the uncommitted modification has done to each relation, after the
\* call `call` that left `out`.
LifeAfter(call, out) ==
    IF out.err # "none" THEN life
    ELSE IF call.op = "put_rel_creation" THEN [life EXCEPT ![call.tag] = "created"]
    ELSE IF call.op = "put_rel_drops"
    THEN [t \in ValidTags |->
            IF t \notin call.tags THEN life[t]
            ELSE IF life[t] = "created" THEN "undone" ELSE "none"]
    ELSE IF call.tag \in ValidTags
    THEN [life EXCEPT ![call.tag] = IF @ = "undone" THEN "none" ELSE @]
    ELSE life

\* A put_* handler ran to its end (or to its error) and left `out`.
WriterStep(call, out) ==
    /\ open
    /\ pending_metadata_pages' = out.pages
    /\ pending_data_batch' = out.data
    /\ pending_deletions' = out.dels
    /\ pending_nblocks' = out.nblocks
    /\ pending_directory_entries' = out.dirents
    /\ rel_size_latest_cache' = out.latest
    /\ v2_status' = out.status
    /\ migrated_lsn' = out.mlsn
    /\ lastOp' = [call EXCEPT !.res = IF out.err = "none" THEN "Ok" ELSE out.err,
                             !.old = LET r == ModGet(rel_size_to_key(call.tag))
                                     IN IF r.err = "none" THEN r.v.n ELSE 0,
                             !.nb = pending_nblocks]
    /\ life' = LifeAfter(call, out)
    /\ nops' = nops + 1
    /\ writerCalls' = <<>>
    /\ UNCHANGED <<frame, data_pages, store, deleted, last_record_lsn, logical_size, dir_count, v2_enabled,
                   fault, rel_size_snapshot_cache, open, lsn, pending_lsns,
                   is_importing_pgdata, held, done, nreads>>

PutRelCreation(tag, n) ==
    WriterStep(Op("put_rel_creation", tag, n, ""), put_rel_creation(Cx, tag, n))
PutRelExtend(tag, n) ==
    WriterStep(Op("put_rel_extend", tag, n, ""), put_rel_extend(Cx, tag, n))
PutRelTruncation(tag, n) ==
    WriterStep(Op("put_rel_truncation", tag, n, ""), put_rel_truncation(Cx, tag, n))

\* DatadirModification::put_control_file / put_checkpoint
PutControlFile(n) ==
    WriterStep(Op("put_control_file", InvalidTag, n, ""), Put(Cx, CONTROLFILE_KEY, FileImage(n)))
PutCheckpoint(n) ==
    WriterStep(Op("put_checkpoint", InvalidTag, n, ""), Put(Cx, CHECKPOINT_KEY, FileImage(n)))

PutRelDrops(tags) ==
    WriterStep([Op("put_rel_drops", InvalidTag, 0, "") EXCEPT !.tags = tags],
               put_rel_drops(Cx, tags))

PutRelmapFile(db, img) ==
    WriterStep(Op("put_relmap_file", InvalidTag, img, ""), put_relmap_file(Cx, db, img))

\* The component that persists the status completes the migration.
FinishMigration ==
    /\ v2_status = "Migrating"
    /\ v2_status' = "Migrated"
    /\ lastOp' = Op("update_rel_size_v2_status", InvalidTag, 0, "Ok")
    /\ writerCalls' = <<>>
    /\ UNCHANGED <<frame, data_pages, store, deleted, last_record_lsn, logical_size, dir_count, migrated_lsn,
                   v2_enabled, fault, cacheVars, modVars, held, done, life, nops, nreads>>

\* The storage below starts or stops failing the reads of one sparse key.
StorageFault(f) ==
    /\ f # fault
    /\ fault' = f
    /\ lastOp' = Op("storage_fault", InvalidTag, 0, f.kind)
    /\ writerCalls' = <<>>
    /\ UNCHANGED <<frame, data_pages, store, deleted, last_record_lsn, logical_size, dir_count, v2_status,
                   migrated_lsn, v2_enabled, cacheVars, modVars, held, done, life, nops,
                   nreads>>

\* DatadirModification::commit, in the order of its statements.  w carries
\* the writer-side and the modification-side state through them; fail names
\* the storage call that fails in this run of commit, if any.
CommitStart ==
    [store |-> store, deleted |-> deleted, last_record_lsn |-> last_record_lsn,
     logical_size |-> logical_size, dir_count |-> dir_count,
     batch |-> pending_metadata_pages,         \* pending_metadata_pages.drain()
     data_pages |-> data_pages,
     data_batch |-> pending_data_batch,        \* self.pending_data_batch.take()
     pages |-> EmptyPages,
     saved_nblocks |-> pending_nblocks,        \* let pending_nblocks = self.pending_nblocks
     nblocks |-> 0,                            \* self.pending_nblocks = 0
     dels |-> pending_deletions, lsns |-> pending_lsns,
     dirents |-> pending_directory_entries,
     calls |-> <<>>, err |-> "none"]

commit_put_batch(w, fail) ==
    IF ~HasPending(w.batch) /\ w.data_batch = {} THEN w
    ELSE IF fail = "put_batch"
    THEN [w EXCEPT !.calls = Append(w.calls, Call("put_batch", "Err")), !.err = "put_batch"]
    ELSE [w EXCEPT !.calls = Append(w.calls, Call("put_batch", "Ok")),
                   !.store = PutBatch(w.store, w.batch),
                   !.data_pages = w.data_pages \cup w.data_batch]

commit_delete_batch(w, fail) ==
    IF w.err # "none" \/ w.dels = <<>> THEN w
    ELSE IF fail = "delete_batch"
    THEN [w EXCEPT !.calls = Append(w.calls, Call("delete_batch", "Err")),
                   !.err = "delete_batch"]
    ELSE [w EXCEPT !.calls = Append(w.calls, Call("delete_batch", "Ok")),
                   !.deleted = w.deleted \cup {w.dels[i] : i \in 1..Len(w.dels)},
                   !.dels = <<>>]

\* Faulty variant of commit: finish_write runs although a batch failed.
commit_finish_write_always(w) ==
    LET all == Append(w.lsns, lsn)
    IN [w EXCEPT !.calls = w.calls \o [i \in 1..Len(all) |-> Call("finish_write", all[i])],
                 !.last_record_lsn = MaxOfSeq(w.last_record_lsn, all),
                 !.lsns = <<>>]

\* pending_lsns.push(self.lsn), then finish_write for each drained LSN.
commit_finish_write(w) ==
    IF w.err # "none" THEN w
    ELSE LET all == Append(w.lsns, lsn)
         IN [w EXCEPT !.calls = w.calls \o [i \in 1..Len(all) |->
                                               Call("finish_write", all[i])],
                      !.last_record_lsn = MaxOfSeq(w.last_record_lsn, all),
                      !.lsns = <<>>]

commit_counters(w) ==
    IF w.err # "none" THEN w
    ELSE LET sized == IF w.saved_nblocks # 0
                      THEN [w EXCEPT !.calls = Append(w.calls,
                                        Call("update_current_logical_size", w.saved_nblocks)),
                                     !.logical_size = w.logical_size + w.saved_nblocks]
                      ELSE w
         IN [sized EXCEPT !.calls = sized.calls \o [i \in 1..Len(w.dirents) |->
                                        Call("update_directory_entries_count", i)],
                          !.dir_count = ApplyDirEntries(w.dir_count, w.dirents),
                          !.dirents = <<>>]

commit(fail) ==
    commit_counters(commit_finish_write(
        commit_delete_batch(commit_put_batch(CommitStart, fail), fail)))

Commit(fail) ==
    LET w == commit(fail)
    IN /\ open
       /\ fail = "put_batch" => (HasPending(pending_metadata_pages) \/ pending_data_batch # {})
       /\ fail = "delete_batch" => pending_deletions # <<>>
       /\ store' = w.store
       /\ data_pages' = w.data_pages
       /\ pending_data_batch' = {}
       /\ deleted' = w.deleted
       /\ last_record_lsn' = w.last_record_lsn
       /\ logical_size' = w.logical_size
       /\ dir_count' = w.dir_count
       /\ pending_metadata_pages' = w.pages
       /\ pending_nblocks' = w.nblocks
       /\ pending_deletions' = w.dels
       /\ pending_lsns' = w.lsns
       /\ pending_directory_entries' = w.dirents
       /\ writerCalls' = w.calls
       /\ lastOp' = Op("commit", InvalidTag, 0, IF w.err = "none" THEN "Ok" ELSE "Err")
       /\ done' = IF w.err = "none" THEN Len(held) ELSE done
       /\ life' = IF w.err = "none" THEN [t \in ValidTags |-> "none"] ELSE life
       /\ UNCHANGED <<frame, v2_status, migrated_lsn, v2_enabled, fault, cacheVars, open, lsn,
                      is_importing_pgdata, held, nops, nreads>>

\* A page-service reader runs get_rel_size(tag, Version::LsnRange) at an
\* effective LSN that is already committed; a size read from the store is
\* written to the cache that matches the request class.
ReaderGetRelSize(tag, l, latest) ==
    LET version == LsnRange(l, IF latest THEN LsnMAX ELSE l)
        r == get_rel_size(pending_metadata_pages, rel_size_latest_cache,
                          rel_size_snapshot_cache, v2_status, migrated_lsn, tag, version)
    IN /\ nreads < MaxReads
       /\ l <= last_record_lsn
       /\ nreads' = nreads + 1
       /\ rel_size_latest_cache' =
             IF r.fromStore /\ Version_is_latest(version)
             THEN update_latest(rel_size_latest_cache, tag, l, r.n)
             ELSE rel_size_latest_cache
       /\ rel_size_snapshot_cache' =
             IF r.fromStore /\ ~Version_is_latest(version)
             THEN update_snapshot(rel_size_snapshot_cache, tag, l, r.n)
             ELSE rel_size_snapshot_cache
       /\ lastOp' = Op("get_rel_size", tag, l, IF r.err = "none" THEN "Ok" ELSE r.err)
       /\ writerCalls' = <<>>
       /\ UNCHANGED <<frame, tlVars, modVars, held, done, life, nops>>

\* The ingest writer on every relation tag, with storage failures.
Next ==
    \/ \E l \in Lsns : Begin(l)
    \/ Abandon
    \/ \E l \in Lsns : SetLsn(l)
    \/ nops < MaxOps /\ \E t \in Tags, n \in Sizes : PutRelCreation(t, n)
    \/ nops < MaxOps /\ \E t \in Tags, n \in Sizes : PutRelExtend(t, n)
    \/ nops < MaxOps /\ \E t \in Tags, n \in Sizes : PutRelTruncation(t, n)
    \/ nops < MaxOps /\ \E ts \in SUBSET Tags \ {{}} : PutRelDrops(ts)
    \/ \E f \in {"none", "put_batch", "delete_batch"} : Commit(f)

Spec == Init /\ [][Next]_vars

\* The ingest writer working on one relation, longer, with storage that does
\* not fail; as in WAL ingest every record is stamped above the committed
\* high-water mark.
Ingesting == nops < MaxScriptOps /\ lsn > last_record_lsn

NextScript ==
    \/ \E l \in Lsns : Begin(l)
    \/ \E l \in Lsns : SetLsn(l)
    \/ Ingesting /\ \E n \in Sizes : PutRelCreation(TheRel, n)
    \/ Ingesting /\ \E n \in Sizes : PutRelExtend(TheRel, n)
    \/ Ingesting /\ \E n \in Sizes : PutRelTruncation(TheRel, n)
    \/ Ingesting /\ PutRelDrops({TheRel})
    \/ Commit("none")

SpecScript == Init /\ [][NextScript]_vars

\* The ingest writer putting whole-cluster metadata files.
NextMeta ==
    \/ \E l \in Lsns : Begin(l)
    \/ Abandon
    \/ \E l \in Lsns : SetLsn(l)
    \/ nops < MaxScriptOps /\ \E n \in Sizes : PutControlFile(n)
    \/ nops < MaxScriptOps /\ \E n \in Sizes : PutCheckpoint(n)
    \/ \E f \in {"none", "put_batch"} : Commit(f)

SpecMeta == Init /\ [][NextMeta]_vars

\* The ingest writer and the import writer creating and dropping relations
\* while the directory migrates.
Migrating == nops < MaxMigrateOps /\ lsn > last_record_lsn

NextMigrate ==
    \/ \E l \in Lsns : Begin(l)
    \/ \E l \in Lsns : BeginForImport(l)
    \/ Abandon
    \/ \E l \in Lsns : SetLsn(l)
    \/ Migrating /\ \E t \in ValidTags : PutRelCreation(t, 0)
    \/ Migrating /\ \E ts \in SUBSET ValidTags \ {{}} : PutRelDrops(ts)
    \/ Migrating /\ \E d \in Dbs : PutRelmapFile(d, 0)
    \/ Commit("none")
    \/ FinishMigration

SpecMigrate == Init /\ [][NextMigrate]_vars

\* The ingest writer creating and dropping relations on storage where the
\* reads of the sparse key of one relation may fail.
FaultsOfTheRel == {f \in Faults : f.kind = "none" \/ f.key = rel_tag_sparse_key(TheRel)}

NextFaulty ==
    \/ \E l \in Lsns : Begin(l)
    \/ \E l \in Lsns : SetLsn(l)
    \/ Migrating /\ \E t \in ValidTags : PutRelCreation(t, 0)
    \/ Migrating /\ \E t \in ValidTags : PutRelDrops({t})
    \/ Commit("none")
    \/ FinishMigration
    \/ \E f \in FaultsOfTheRel : StorageFault(f)

SpecFaulty == Init /\ [][NextFaulty]_vars

\* ------------------------------------------------------------ find_gaps
Blknos == 0..MaxBlkno

\* ShardIdentity.  An unsharded identity has count 0 and number 0; a sharded
\* one has a count, a stripe size and the hash that maps a stripe of blocks
\* of the relation to a number.
Unsharded == [number |-> 0, count |-> 0, stripe_size |-> 1, hash |-> [i \in Blknos |-> 0]]
ShardIdentities ==
    {Unsharded} \cup [number : {0, 1}, count : {2}, stripe_size : {1, 2},
                      hash : [Blknos -> {0, 1}]]

\* ShardIdentity::get_shard_number on the key of block blkno of a relation
get_shard_number(shard, blkno) ==
    IF shard.count < 2 THEN 0
    ELSE shard.hash[blkno \div shard.stripe_size] % shard.count

\* KeySpaceAccum::add_key: the key extends the last range when it follows
\* it, else it opens a new range.  Ranges are <<start, end>>, end excluded.
KeySpaceAccum_add_key(accum, blkno) ==
    IF accum # <<>> /\ accum[Len(accum)][2] = blkno
    THEN [accum EXCEPT ![Len(accum)] = <<@[1], blkno + 1>>]
    ELSE Append(accum, <<blkno, blkno + 1>>)

\* Faulty variant of the ownership test of find_gaps: every key is taken.
GapIsOwned_any(shard, gap_blkno) == TRUE

\* find_gaps, the test of the loop body
GapIsOwned(shard, gap_blkno) == get_shard_number(shard, gap_blkno) = shard.number

\* find_gaps, entered with its arguments; gap_accum is None.
FindGapsCall(blkno, previous_nblocks, shard) ==
    [fn |-> "find_gaps", blkno |-> blkno, previous_nblocks |-> previous_nblocks,
     shard |-> shard, gap_blkno |-> previous_nblocks, some |-> FALSE, accum |-> <<>>,
     returned |-> FALSE]

\* One iteration of `for gap_blkno in previous_nblocks..blkno`.
FindGapsIter ==
    /\ frame.fn = "find_gaps" /\ ~frame.returned
    /\ frame.gap_blkno < frame.blkno
    /\ frame' = IF GapIsOwned(frame.shard, frame.gap_blkno)
               THEN [frame EXCEPT !.gap_blkno = @ + 1, !.some = TRUE,
                                 !.accum = KeySpaceAccum_add_key(@, frame.gap_blkno)]
               ELSE [frame EXCEPT !.gap_blkno = @ + 1]
    /\ UNCHANGED <<tlVars, cacheVars, modVars, lastOp, writerCalls, held, done, life, nops,
                   nreads>>

\* The loop is over: gap_accum.map(|accum| accum.to_keyspace()).
FindGapsReturn ==
    /\ frame.fn = "find_gaps" /\ ~frame.returned
    /\ frame.gap_blkno >= frame.blkno
    /\ frame' = [frame EXCEPT !.returned = TRUE]
    /\ UNCHANGED <<tlVars, cacheVars, modVars, lastOp, writerCalls, held, done, life, nops,
                   nreads>>

\* A fresh timeline with no modification open, on which a function that
\* keeps its state in locals is called.
Quiescent ==
    /\ store = [k \in Keys |-> [l \in Lsns |->
                  IF k = DBDIR_KEY /\ l = InitLsn THEN DirImage({}) ELSE NoValue]]
    /\ deleted = {} /\ last_record_lsn = InitLsn /\ logical_size = 0
    /\ dir_count = [k \in DirKinds |-> 0]
    /\ rel_size_latest_cache = [t \in ValidTags |-> NoEntry]
    /\ rel_size_snapshot_cache = {}
    /\ v2_status = "Legacy" /\ migrated_lsn = 0 /\ v2_enabled = FALSE
    /\ fault = NoFault /\ open = FALSE /\ lsn = InitLsn /\ pending_lsns = <<>>
    /\ data_pages = {} /\ pending_data_batch = {}
    /\ pending_metadata_pages = EmptyPages /\ pending_deletions = <<>>
    /\ pending_nblocks = 0 /\ pending_directory_entries = <<>>
    /\ is_importing_pgdata = FALSE /\ lastOp = Op("init", InvalidTag, 0, "Ok")
    /\ writerCalls = <<>> /\ held = <<>> /\ done = 0
    /\ life = [t \in ValidTags |-> "none"] /\ nops = 0 /\ nreads = 0

\* find_gaps called on any block number, previous size and shard identity.
InitGaps ==
    /\ Quiescent
    /\ \E blkno \in Blknos, previous_nblocks \in Blknos, shard \in ShardIdentities :
          frame = FindGapsCall(blkno, previous_nblocks, shard)

NextGaps == FindGapsIter \/ FindGapsReturn

SpecGaps == InitGaps /\ [][NextGaps]_vars

\* ------------------------------------------ get_rel_page_at_lsn_batched
ReqLsns == 1..MaxReqLsn
ReqBlknos == {0, 1}
\* One request of the batch: (tag, blknum, lsns).
PageRequests == [tag : Tags, blknum : ReqBlknos, lsn : ReqLsns]
\* rel_block_to_key
rel_block_to_key(tag, blknum) == [tag |-> tag, blknum |-> blknum]

\* The results a slot can hold.
NoKey == rel_block_to_key(InvalidTag, 0)
Uninit == [t |-> "uninit", e |-> "", key |-> NoKey]
ZERO_PAGE == [t |-> "Ok", e |-> "ZERO_PAGE", key |-> NoKey]
PageOf(key) == [t |-> "Ok", e |-> "", key |-> key]
PageErr(e) == [t |-> "Err", e |-> e, key |-> NoKey]
\* What get_rel_size can answer.
RelSizeResults == {[err |-> TRUE, n |-> 0], [err |-> FALSE, n |-> 1], [err |-> FALSE, n |-> 2]}
\* What get_vectored can hold for a key, and how it can fail as a whole.
KeyResults(key) == {PageOf(key), PageErr("MissingKey"), PageErr("Cancelled")}
GetVectoredErrors == {"Cancelled", "MissingKey", "Other"}

\* result_slots[slot].write(v)
SlotWrite(f, slot, v) ==
    [f EXCEPT !.result[slot] = v, !.writes[slot] = @ + 1]

\* The copy of a result handed to a later request of the same key.
CloneForDuplicate(res) ==
    IF res.t = "Ok" THEN res
    ELSE IF res.e = "Cancelled" THEN PageErr("Cancelled")
    ELSE PageErr("Other")

\* The error every pending slot gets when get_vectored fails as a whole.
FromGetVectoredError(e) == IF e = "Cancelled" THEN PageErr("Cancelled") ELSE PageErr("Other")

\* get_rel_page_at_lsn_batched, entered with its requests; sizes is what
\* get_rel_size answers for the relation at each LSN.
BatchCall(pages, sizes) ==
    [fn |-> "get_rel_page_at_lsn_batched", pages |-> pages, sizes |-> sizes,
     phase |-> "resolve", idx |-> 1, slots_filled |-> 0,
     result |-> [i \in 1..Len(pages) |-> Uninit],
     writes |-> [i \in 1..Len(pages) |-> 0],
     keys_slots |-> <<>>,        \* Seq([key, slots]), a key once
     delivered |-> <<>>,         \* Seq([key, res, at]): what get_vectored gave
     failed |-> "none", returned |-> FALSE]

\* keys_slots.entry(key).or_default().push(slot)
KeySlotsPush(ks, key, slot) ==
    IF \E j \in 1..Len(ks) : ks[j].key = key
    THEN [j \in 1..Len(ks) |-> IF ks[j].key = key
                               THEN [ks[j] EXCEPT !.slots = Append(@, slot)]
                               ELSE ks[j]]
    ELSE Append(ks, [key |-> key, slots |-> <<slot>>])

\* One iteration of the loop over the requests.
BatchResolveOne(f, req) ==
    IF req.tag.relnode = 0
    THEN [SlotWrite(f, f.idx, PageErr("InvalidRelnode")) EXCEPT !.slots_filled = @ + 1]
    ELSE IF f.sizes[req.lsn].err
    THEN [SlotWrite(f, f.idx, PageErr("GetRelSize")) EXCEPT !.slots_filled = @ + 1]
    ELSE IF req.blknum >= f.sizes[req.lsn].n
    THEN [SlotWrite(f, f.idx, ZERO_PAGE) EXCEPT !.slots_filled = @ + 1]
    ELSE [f EXCEPT !.keys_slots = KeySlotsPush(@, rel_block_to_key(req.tag, req.blknum),
                                              f.idx)]

FrameStep(f) ==
    /\ frame' = f
    /\ UNCHANGED <<tlVars, cacheVars, modVars, lastOp, writerCalls, held, done, life, nops,
                   nreads>>

BatchResolve ==
    /\ frame.fn = "get_rel_page_at_lsn_batched" /\ frame.phase = "resolve"
    /\ frame.idx <= Len(frame.pages)
    /\ FrameStep([BatchResolveOne(frame, frame.pages[frame.idx]) EXCEPT !.idx = @ + 1])

\* get_vectored returned Ok(results): the results are then taken one key at
\* a time.
BatchGetVectoredOk ==
    /\ frame.fn = "get_rel_page_at_lsn_batched" /\ frame.phase = "resolve"
    /\ frame.idx > Len(frame.pages)
    /\ FrameStep([frame EXCEPT !.phase = "scatter"])

\* Faulty variant of the scatter of one result: every slot of the key is
\* written, the first among them twice.
ScatterSlots_twice(f, slots, res) ==
    LET first == SlotWrite(SlotWrite(f, slots[1], res), slots[1], res)
    IN [first EXCEPT !.slots_filled = @ + Len(slots)]

\* The body of `for (key, res) in results`: the later slots of the key get
\* the clone, the first one the result.
RECURSIVE ScatterClones(_, _, _)
ScatterClones(f, slots, res) ==
    IF slots = <<>> THEN f
    ELSE ScatterClones([SlotWrite(f, Head(slots), CloneForDuplicate(res))
                           EXCEPT !.slots_filled = @ + 1],
                       Tail(slots), res)

ScatterSlots(f, slots, res) ==
    [SlotWrite(ScatterClones(f, Tail(slots), res), slots[1], res)
        EXCEPT !.slots_filled = @ + 1]

\* req_keyspaces.entry(lsn).or_default().add_key(key): the LSNs whose
\* keyspace of the query holds the key.
QueriedLsns(f, slots) == {f.pages[slots[i]].lsn : i \in 1..Len(slots)}

\* The next (key, res) of the results, in whatever order they come. The
\* results are a map with one entry for a key: res is the page as of one
\* of the LSNs the key was queried at.
BatchScatter(j, res) ==
    /\ frame.fn = "get_rel_page_at_lsn_batched" /\ frame.phase = "scatter"
    /\ j \in 1..Len(frame.keys_slots)
    /\ res \in KeyResults(frame.keys_slots[j].key)
    /\ \E at \in QueriedLsns(frame, frame.keys_slots[j].slots) :
          FrameStep([ScatterSlots(frame, frame.keys_slots[j].slots, res)
                       EXCEPT !.keys_slots = [i \in 1..(Len(@) - 1) |->
                                                IF i < j THEN @[i] ELSE @[i + 1]],
                              !.delivered = Append(@, [key |-> frame.keys_slots[j].key,
                                                       res |-> res, at |-> at])])

\* get_vectored returned Err(err): every slot still waiting gets the error.
RECURSIVE FailSlots(_, _, _)
FailSlots(f, slots, e) ==
    IF slots = <<>> THEN f
    ELSE FailSlots(SlotWrite(f, Head(slots), FromGetVectoredError(e)), Tail(slots), e)

RECURSIVE FailKeys(_, _, _)
FailKeys(f, ks, e) ==
    IF ks = <<>> THEN f
    ELSE FailKeys([FailSlots(f, Head(ks).slots, e)
                      EXCEPT !.slots_filled = @ + Len(Head(ks).slots)],
                  Tail(ks), e)

BatchGetVectoredErr(e) ==
    /\ frame.fn = "get_rel_page_at_lsn_batched" /\ frame.phase = "resolve"
    /\ frame.idx > Len(frame.pages)
    /\ FrameStep([FailKeys(frame, frame.keys_slots, e)
                    EXCEPT !.phase = "failed", !.failed = e])

\* assert_eq!(slots_filled, page_count); result.set_len(page_count)
BatchReturn ==
    /\ frame.fn = "get_rel_page_at_lsn_batched" /\ ~frame.returned
    /\ \/ frame.phase = "scatter" /\ frame.keys_slots = <<>>
       \/ frame.phase = "failed"
    /\ FrameStep([frame EXCEPT !.returned = TRUE,
                               !.phase = IF frame.slots_filled = Len(frame.pages)
                                         THEN "returned" ELSE "panicked"])

\* A batch of MaxBatch requests on one relation and on the invalid tag.
InitBatch ==
    /\ Quiescent
    /\ \E pages \in [1..MaxBatch -> PageRequests],
          sizes \in [ReqLsns -> RelSizeResults] :
          frame = BatchCall(pages, sizes)

NextBatch ==
    \/ BatchResolve
    \/ BatchGetVectoredOk
    \/ \E j \in 1..MaxBatch, res \in UNION {KeyResults(rel_block_to_key(TheRel, b)) :
                                               b \in ReqBlknos} : BatchScatter(j, res)
    \/ \E e \in GetVectoredErrors : BatchGetVectoredErr(e)
    \/ BatchReturn

SpecBatch == InitBatch /\ [][NextBatch]_vars

\* ------------------------------------------------ find_lsn_for_timestamp
\* LSNs are 8-byte aligned; as in the code they are kept divided by 8.
CommitLsns == 1..MaxCommitLsn
Timestamps == 1..MaxTimestamp
ClogPages == {"A", "B"}          \* two Clog pages, in two segments
NoCommit == [page |-> "none", ts |-> 0]
\* The WAL ingested so far: at most one commit record per LSN, which stamps
\* its timestamp on the Clog page of its transaction.
CommitHistories == [CommitLsns -> {NoCommit} \cup [page : ClogPages, ts : Timestamps]]

\* The timestamp a Clog page carries at probe_lsn: that of the last commit
\* that wrote the page; 0 when the page has no timestamp yet.
ClogTimestamp(commits, page, probe_lsn) ==
    LET on == {l \in CommitLsns : l <= probe_lsn /\ commits[l].page = page}
    IN IF on = {} THEN 0
       ELSE commits[CHOOSE l \in on : \A x \in on : x <= l].ts

\* map_all_timestamps with the closure of is_latest_commit_timestamp_ge_than,
\* over the pages in the order the segments are listed.
RECURSIVE MapAllTimestamps(_, _, _, _)
MapAllTimestamps(st, timestamps, search_timestamp, order) ==
    IF order = <<>> THEN st
    ELSE LET timestamp == timestamps[Head(order)]
         IN IF timestamp = 0
            THEN MapAllTimestamps(st, timestamps, search_timestamp, Tail(order))
            ELSE IF timestamp >= search_timestamp
            THEN [st EXCEPT !.found_larger = TRUE, !.cmp = TRUE]
            ELSE MapAllTimestamps([st EXCEPT !.found_smaller = TRUE], timestamps,
                                  search_timestamp, Tail(order))

\* Timeline::is_latest_commit_timestamp_ge_than
is_latest_commit_timestamp_ge_than(f, probe_lsn, order) ==
    MapAllTimestamps([found_smaller |-> f.found_smaller, found_larger |-> f.found_larger,
                      cmp |-> FALSE],
                     [p \in ClogPages |-> ClogTimestamp(f.commits, p, probe_lsn)],
                     f.search_timestamp, order)

LsnForTimestamp(kind, l) == [kind |-> kind, lsn |-> l, err |-> "none"]
LsnForTimestampErr(e) == [kind |-> "Err", lsn |-> 0, err |-> e]

\* find_lsn_for_timestamp, entered: low and high bracket the LSNs from
\* min_lsn to the last record LSN.
FindLsnCall(commits, search_timestamp, gc_cutoff, ancestor_lsn, max_lsn) ==
    LET min_lsn == IF gc_cutoff >= ancestor_lsn THEN gc_cutoff ELSE ancestor_lsn
    IN [fn |-> "find_lsn_for_timestamp", commits |-> commits,
        search_timestamp |-> search_timestamp, gc_cutoff |-> gc_cutoff,
        ancestor_lsn |-> ancestor_lsn, min_lsn |-> min_lsn, max_lsn |-> max_lsn,
        low |-> min_lsn, high |-> max_lsn + 1, found_smaller |-> FALSE,
        found_larger |-> FALSE, cancelled |-> FALSE, probes |-> 0, probe_err |-> "none",
        returned |-> FALSE, result |-> LsnForTimestampErr("none")]

FindLsnRunning == frame.fn = "find_lsn_for_timestamp" /\ ~frame.returned

\* Faulty variant of the narrowing of the search: the halves are swapped.
Narrow_swapped(f, mid, cmp) ==
    IF cmp THEN [f EXCEPT !.low = mid + 1] ELSE [f EXCEPT !.high = mid]

\* Faulty variant of the narrowing of the search: the lower bound is moved
\* to mid and not past it.
Narrow_stalls(f, mid, cmp) ==
    IF cmp THEN [f EXCEPT !.high = mid] ELSE [f EXCEPT !.low = mid]

\* if cmp { high = mid } else { low = mid + 1 }
Narrow(f, mid, cmp) ==
    IF cmp THEN [f EXCEPT !.high = mid] ELSE [f EXCEPT !.low = mid + 1]

\* Faulty variant of the handling of a failed probe: MissingKey is returned
\* like any other error.
ProbeFailed_strict(f, e) ==
    [f EXCEPT !.returned = TRUE, !.result = LsnForTimestampErr(e)]

\* The Err arms of the match on the probe.
ProbeFailed(f, e) ==
    IF e = "MissingKey"
    THEN [f EXCEPT !.returned = TRUE, !.result = LsnForTimestamp("Past", f.min_lsn)]
    ELSE [f EXCEPT !.returned = TRUE, !.result = LsnForTimestampErr(e)]

\* One iteration of `while low < high` that is not cancelled: the probe at
\* mid succeeds, with the segments listed in some order.
FindLsnProbe(order) ==
    /\ FindLsnRunning /\ frame.low < frame.high /\ ~frame.cancelled
    /\ LET mid == (frame.high + frame.low) \div 2
           st == is_latest_commit_timestamp_ge_than(frame, mid, order)
       IN FrameStep(Narrow([frame EXCEPT !.found_smaller = st.found_smaller,
                                         !.found_larger = st.found_larger,
                                         !.probes = @ + 1],
                           mid, st.cmp))

\* One iteration whose probe fails.
FindLsnProbeFails(e) ==
    /\ FindLsnRunning /\ frame.low < frame.high /\ ~frame.cancelled
    /\ FrameStep(ProbeFailed([frame EXCEPT !.probes = @ + 1, !.probe_err = e], e))

\* The cancellation token is triggered while the search runs.
FindLsnCancel ==
    /\ FindLsnRunning /\ ~frame.cancelled
    /\ FrameStep([frame EXCEPT !.cancelled = TRUE])

\* if cancel.is_cancelled() { return Err(Cancelled) }
FindLsnCancelled ==
    /\ FindLsnRunning /\ frame.low < frame.high /\ frame.cancelled
    /\ FrameStep([frame EXCEPT !.returned = TRUE, !.result = LsnForTimestampErr("Cancelled")])

\* low, mid and high are u64 and hold the LSN divided by 8; the model
\* narrows their range to 8 bits.
LsnRangeDiv8 == 2 ^ 8

\* Lsn((low - 1) * 8) where the subtraction wraps around.
WrappingCommitLsn(f) == (f.low - 1) % LsnRangeDiv8

\* The match on (found_smaller, found_larger) after the loop.
Classify(f) ==
    LET commit_lsn == WrappingCommitLsn(f)
    IN IF ~f.found_smaller /\ ~f.found_larger THEN LsnForTimestamp("NoData", f.min_lsn)
       ELSE IF ~f.found_smaller THEN LsnForTimestamp("Past", f.min_lsn)
       ELSE IF commit_lsn < f.min_lsn THEN LsnForTimestamp("Past", f.min_lsn)
       ELSE IF ~f.found_larger THEN LsnForTimestamp("Future", commit_lsn)
       ELSE LsnForTimestamp("Present", commit_lsn)

\* What `low - 1` does: with overflow checks it panics when low is 0,
\* without them it wraps.
Subtractions(f) == IF f.low = 0 THEN {"panic", "wrap"} ELSE {"exact"}

FindLsnReturn ==
    /\ FindLsnRunning /\ frame.low >= frame.high
    /\ \E sub \in Subtractions(frame) :
          FrameStep([frame EXCEPT !.returned = TRUE,
                                  !.result = IF sub = "panic" THEN LsnForTimestampErr("panic")
                                             ELSE Classify(frame)])

ClogOrders == {<<"A", "B">>, <<"B", "A">>}

\* find_lsn_for_timestamp on any history of commits, from any min_lsn.
InitFindLsn ==
    /\ Quiescent
    /\ \E commits \in CommitHistories, search_timestamp \in {2},
          gc_cutoff \in {0, 1, 2}, ancestor_lsn \in {0, 2} :
          frame = FindLsnCall(commits, search_timestamp, gc_cutoff, ancestor_lsn, MaxCommitLsn)

NextFindLsn ==
    \/ \E order \in ClogOrders : FindLsnProbe(order)
    \/ \E e \in {"MissingKey", "Other"} : FindLsnProbeFails(e)
    \/ FindLsnCancel
    \/ FindLsnCancelled
    \/ FindLsnReturn

SpecFindLsn == InitFindLsn /\ [][NextFindLsn]_vars

\* ------------------------------------------- the relation size caches
\* The ingest writer on one relation and the page-service readers that ask
\* for its size, sharing the relation size caches.
NextCache ==
    \/ \E l \in Lsns : Begin(l)
    \/ Abandon
    \/ \E l \in Lsns : SetLsn(l)
    \/ Ingesting /\ \E n \in Sizes : PutRelCreation(TheRel, n)
    \/ Ingesting /\ \E n \in Sizes : PutRelExtend(TheRel, n)
    \/ Ingesting /\ \E n \in Sizes : PutRelTruncation(TheRel, n)
    \/ \E l \in Lsns, latest \in BOOLEAN : ReaderGetRelSize(TheRel, l, latest)
    \/ Commit("none")

SpecCache == Init /\ [][NextCache]_vars

\* ------------------------------------- a reader racing with the writer
\* A page-service reader has entered get_rel_size(tag, Version::LsnRange) and
\* come as far as the read of the size key: the cache lookup and the store
\* read are done, update_cached_rel_size is still to come.
ReaderReadsSize(tag, l, latest) ==
    LET version == LsnRange(l, IF latest THEN LsnMAX ELSE l)
        r == get_rel_size(pending_metadata_pages, rel_size_latest_cache,
                          rel_size_snapshot_cache, v2_status, migrated_lsn, tag, version)
    IN /\ frame = NoCall
       /\ nreads < MaxReads
       /\ l <= last_record_lsn
       /\ nreads' = nreads + 1
       /\ frame' = [fn |-> "get_rel_size", tag |-> tag, lsn |-> l, latest |-> latest,
                    fromStore |-> r.fromStore, nblocks |-> r.n]
       /\ lastOp' = Op("get_rel_size", tag, l, IF r.err = "none" THEN "Ok" ELSE r.err)
       /\ writerCalls' = <<>>
       /\ UNCHANGED <<tlVars, cacheVars, modVars, held, done, life, nops>>

\* The reader goes on: self.update_cached_rel_size(tag, version, nblocks) if
\* the size came from the store, and the call returns.
ReaderUpdatesCache ==
    /\ frame.fn = "get_rel_size"
    /\ frame' = NoCall
    /\ rel_size_latest_cache' =
          IF frame.fromStore /\ frame.latest
          THEN update_latest(rel_size_latest_cache, frame.tag, frame.lsn, frame.nblocks)
          ELSE rel_size_latest_cache
    /\ rel_size_snapshot_cache' =
          IF frame.fromStore /\ ~frame.latest
          THEN update_snapshot(rel_size_snapshot_cache, frame.tag, frame.lsn, frame.nblocks)
          ELSE rel_size_snapshot_cache
    /\ lastOp' = Op("update_cached_rel_size", frame.tag, frame.lsn, "Ok")
    /\ writerCalls' = <<>>
    /\ UNCHANGED <<tlVars, modVars, held, done, life, nops, nreads>>

\* Whether the relation is in the relation directory the newest state of
\* the timeline shows (the overlay of the open modification over the
\* committed store), the caches left aside.
InDirectory(tag) ==
    get_rel_exists(pending_metadata_pages, [t \in ValidTags |-> NoEntry], {},
                   v2_status, migrated_lsn, tag, Modified)

\* The ingest writer creating, extending and dropping one relation while a
\* reader asks for its size; no modification is dropped.
Racing == nops < MaxRaceOps /\ lsn > last_record_lsn

NextRace ==
    \/ \E l \in Lsns : Begin(l)
    \/ \E l \in Lsns : SetLsn(l)
    \/ Racing /\ PutRelCreation(TheRel, 0)
    \/ Racing /\ InDirectory(TheRel) = OkB(TRUE) /\ PutRelExtend(TheRel, 1)
    \/ Racing /\ PutRelDrops({TheRel})
    \/ \E l \in Lsns, latest \in BOOLEAN : ReaderReadsSize(TheRel, l, latest)
    \/ ReaderUpdatesCache
    \/ Commit("none")

\* The relation directories are in the v1 keyspace, where put_rel_drop_v1
\* evicts the cache entry of every relation it removes.
InitRace == Init /\ v2_status = "Legacy" /\ ~v2_enabled

SpecRace == InitRace /\ [][NextRace]_vars

\* ------------------------------------------ modifications that are dropped
\* What the timeline holds outside of the store when begin_modification is
\* called: the relation size caches and the migration status.
BeforeBegin ==
    [fn |-> "begin_modification", latest |-> rel_size_latest_cache,
     snapshot |-> rel_size_snapshot_cache, status |-> v2_status,
     migrated_lsn |-> migrated_lsn]

\* The caller of begin_modification takes note of that state.
Observe == ~open /\ frame # BeforeBegin /\ FrameStep(BeforeBegin)

Dropping == nops < MaxDropOps /\ lsn > last_record_lsn

\* The ingest writer on one relation; a modification is committed or dropped,
\* and what it wrote is committed at the LSN it was begun with.
NextDropped ==
    \/ Observe
    \/ frame = BeforeBegin /\ \E l \in Lsns : Begin(l)
    \/ Abandon
    \/ Dropping /\ \E n \in {0, 1} : PutRelCreation(TheRel, n)
    \/ Dropping /\ PutRelExtend(TheRel, 2)
    \/ Dropping /\ PutRelTruncation(TheRel, 0)
    \/ Dropping /\ PutRelDrops({TheRel})
    \/ Commit("none")

SpecDropped == Init /\ [][NextDropped]_vars

\* ------------------------------------------------------------ drop_dbdir
\* The orders in which the relations of a database can come out of the set
\* list_rels returns.
RelOrders ==
    {order \in [1..Cardinality(ValidTags) -> ValidTags] :
        \A i, j \in 1..Cardinality(ValidTags) : i # j => order[i] # order[j]}

\* Timeline::get_db_size, the loop over the relations: each size comes from
\* get_rel_size_in_reldir, which writes a size it read from the store to
\* the latest cache.
RECURSIVE DbSizeLoop(_, _, _)
DbSizeLoop(st, rels, order) ==
    IF order = <<>> \/ st.cx.err # "none" THEN st
    ELSE IF Head(order) \notin rels THEN DbSizeLoop(st, rels, Tail(order))
    ELSE LET size == get_rel_size(st.cx.pages, st.cx.latest, rel_size_snapshot_cache,
                                  st.cx.status, st.cx.mlsn, Head(order), Modified)
             cached == IF size.fromStore
                       THEN [st.cx EXCEPT !.latest = update_latest(@, Head(order), lsn, size.n)]
                       ELSE st.cx
         IN IF size.err # "none" THEN [st EXCEPT !.cx = Fail(st.cx, size.err)]
            ELSE DbSizeLoop([cx |-> cached, n |-> st.n + size.n], rels, Tail(order))

\* Timeline::get_db_size(spcnode, dbnode, Version::Modified)
get_db_size(cx, db, order) ==
    LET rels == list_rels(cx.pages, cx.status, cx.mlsn, db, Modified)
        buf == GetIn(cx.pages, rel_dir_to_key(db))
    IN IF rels.err # "none" THEN [cx |-> Fail(cx, rels.err), n |-> 0]
       ELSE IF rels.s = {} THEN [cx |-> cx, n |-> 0]
       ELSE IF buf.err # "none" THEN [cx |-> Fail(cx, buf.err), n |-> 0]
       ELSE DbSizeLoop([cx |-> cx, n |-> 0], rels.s, order)

\* drop_dbdir once the size of the database is known.
drop_dbdir_finish(sized, total_blocks, db) ==
    LET buf == GetIn(sized.pages, DBDIR_KEY)
        dbdirs == {e \in buf.v.s : e[1] # db}
        removed == IF DirContainsDb(buf.v.s, db)
                   THEN Put(PushDirEntry(sized, "Db", "Set", Cardinality(dbdirs)),
                            DBDIR_KEY, DirImage(dbdirs))
                   ELSE sized
    IN IF sized.err # "none" THEN sized
       ELSE IF buf.err # "none" THEN Fail(sized, buf.err)
       ELSE Delete([removed EXCEPT !.nblocks = @ - total_blocks], RelTag(db, 0, MAIN_FORKNUM))

\* DatadirModification::drop_dbdir
drop_dbdir(cx, db, order) ==
    LET total_blocks == get_db_size(cx, db, order)
    IN drop_dbdir_finish(total_blocks.cx, total_blocks.n, db)

DropDbdir(db) ==
    \E order \in RelOrders :
        WriterStep(Op("drop_dbdir", RelTag(db, 0, MAIN_FORKNUM), 0, ""),
                   drop_dbdir(Cx, db, order))

DroppingDb == nops < MaxDbOps /\ lsn > last_record_lsn

\* The ingest writer creating relations in a database and dropping the
\* database; no modification is dropped.
NextDropDb ==
    \/ \E l \in Lsns : Begin(l)
    \/ \E l \in Lsns : SetLsn(l)
    \/ DroppingDb /\ \E t \in ValidTags, n \in Sizes : PutRelCreation(t, n)
    \/ DroppingDb /\ \E d \in Dbs : DropDbdir(d)
    \/ Commit("none")

SpecDropDb == Init /\ [][NextDropDb]_vars

\* ------------------------------- a keyspace initialization that fails
Initializing == nops < MaxInitOps /\ lsn > last_record_lsn

\* The ingest writer creating relations on a timeline with rel_size_v2
\* enabled, while the status cannot always be persisted.
NextInitFails ==
    \/ \E l \in Lsns : Begin(l)
    \/ \E l \in Lsns : SetLsn(l)
    \/ Initializing /\ \E t \in ValidTags : PutRelCreation(t, 0)
    \/ Commit("none")
    \/ \E f \in {NoFault, StatusFault} : StorageFault(f)

InitInitFails == Init /\ v2_status = "Legacy" /\ v2_enabled

SpecInitFails == InitInitFails /\ [][NextInitFails]_vars

\* -------------------------------------------------------------- aux files
AuxContents == {"", "content1", "content2"}     \* "" is the empty content
\* aux_file::encode_file_value / decode_file_value: the (path, content) pairs
\* of one key.
encode_file_value(files) == Image(Cardinality(files), files, FALSE)
decode_file_value(img) == img.s

\* Faulty variant of put_file: a file written with empty content is kept.
put_file_keeps_empty(cx, path, content) ==
    LET key == encode_aux_file_key(path)
        old_val == GetIn(cx.pages, key)
        files == IF old_val.err = "none" THEN decode_file_value(old_val.v) ELSE {}
    IN IF old_val.err \notin {"none", "MissingKey"} THEN Fail(cx, old_val.err)
       ELSE Put(cx, key, encode_file_value({f \in files : f[1] # path}
                                            \cup {<<path, content>>}))

\* DatadirModification::put_file
put_file(cx, path, content) ==
    LET key == encode_aux_file_key(path)
        old_val == GetIn(cx.pages, key)
        files == IF old_val.err = "none" THEN decode_file_value(old_val.v) ELSE {}
        other_files == {f \in files : f[1] # path}
        new_files == IF content # "" THEN other_files \cup {<<path, content>>}
                     ELSE other_files
    IN IF old_val.err \notin {"none", "MissingKey"} THEN Fail(cx, old_val.err)
       ELSE Put(cx, key, encode_file_value(new_files))

PutFile(path, content) ==
    WriterStep([Op("put_file", InvalidTag, 0, "") EXCEPT !.tags = {<<path, content>>}],
               put_file(Cx, path, content))

\* Timeline::list_aux_files_v2: the files of every aux key the scan at l
\* returns.
list_aux_files_v2(st, l) ==
    UNION {decode_file_value(TimelineGetIn(st, k, l).v) :
             k \in {x \in AuxKeys : TimelineGetIn(st, x, l).err = "none"}}

\* The ingest writer putting aux files.
NextAux ==
    \/ \E l \in Lsns : Begin(l)
    \/ Abandon
    \/ \E l \in Lsns : SetLsn(l)
    \/ (nops < MaxAuxOps /\ lsn > last_record_lsn)
          /\ \E path \in AuxPaths, content \in AuxContents : PutFile(path, content)
    \/ \E f \in {"none", "put_batch"} : Commit(f)

\* Aux files do not depend on the relation directory: one status is enough.
InitAux == Init /\ v2_status = "Legacy" /\ ~v2_enabled

SpecAux == InitAux /\ [][NextAux]_vars

\* ----------------------------------------------------- bulk import, flush
\* DatadirModification::put_rel_page_image; put() sends a relation block key
\* to put_data, which adds the value to the pending data batch at self.lsn.
put_rel_page_image(cx, rel, blknum, img) ==
    IF rel.relnode = 0 THEN Fail(cx, "InvalidRelnode")
    ELSE [cx EXCEPT !.data = @ \cup {[key |-> rel_block_to_key(rel, blknum),
                                      lsn |-> lsn, img |-> img]}]

PutRelPageImage(tag, blknum, img) ==
    WriterStep(Op("put_rel_page_image", tag, blknum, ""),
               put_rel_page_image(Cx, tag, blknum, img))

FlushStart ==
    [data_pages |-> data_pages, data_batch |-> pending_data_batch,
     logical_size |-> logical_size, dir_count |-> dir_count,
     nblocks |-> pending_nblocks, dirents |-> pending_directory_entries,
     calls |-> <<>>, err |-> "none"]

\* if let Some(batch) = self.pending_data_batch.take() { writer.put_batch(batch)? }
flush_put_batch(w, fail) ==
    IF w.data_batch = {} THEN w
    ELSE IF fail
    THEN [w EXCEPT !.data_batch = {},
                   !.calls = Append(w.calls, Call("put_batch", "Err")), !.err = "put_batch"]
    ELSE [w EXCEPT !.data_batch = {},
                   !.calls = Append(w.calls, Call("put_batch", "Ok")),
                   !.data_pages = w.data_pages \cup w.data_batch]

\* Faulty variant of the counter hand-over of flush: the block-count delta is
\* handed to the writer and kept.
flush_counters_keeps_delta(w) ==
    IF w.err # "none" THEN w
    ELSE [w EXCEPT !.calls = Append(w.calls, Call("update_current_logical_size", w.nblocks))
                              \o [i \in 1..Len(w.dirents) |->
                                     Call("update_directory_entries_count", i)],
                   !.logical_size = w.logical_size + w.nblocks,
                   !.dir_count = ApplyDirEntries(w.dir_count, w.dirents),
                   !.dirents = <<>>]

\* The counters part of flush: the block-count delta, then the directory
\* entries, are handed to the writer and forgotten.
flush_counters(w) ==
    IF w.err # "none" THEN w
    ELSE LET sized == IF w.nblocks # 0
                      THEN [w EXCEPT !.calls = Append(w.calls,
                                        Call("update_current_logical_size", w.nblocks)),
                                     !.logical_size = w.logical_size + w.nblocks,
                                     !.nblocks = 0]
                      ELSE w
         IN [sized EXCEPT !.calls = sized.calls \o [i \in 1..Len(w.dirents) |->
                                        Call("update_directory_entries_count", i)],
                          !.dir_count = ApplyDirEntries(w.dir_count, w.dirents),
                          !.dirents = <<>>]

\* DatadirModification::flush
flush(fail) ==
    IF pending_nblocks < FLUSH_THRESHOLD THEN FlushStart
    ELSE flush_counters(flush_put_batch(FlushStart, fail))

Flush(fail) ==
    LET w == flush(fail)
    IN /\ open
       /\ fail => (pending_nblocks >= FLUSH_THRESHOLD /\ pending_data_batch # {})
       /\ data_pages' = w.data_pages
       /\ pending_data_batch' = w.data_batch
       /\ logical_size' = w.logical_size
       /\ dir_count' = w.dir_count
       /\ pending_nblocks' = w.nblocks
       /\ pending_directory_entries' = w.dirents
       /\ writerCalls' = w.calls
       /\ lastOp' = Op("flush", InvalidTag, 0, IF w.err = "none" THEN "Ok" ELSE "Err")
       /\ UNCHANGED <<frame, store, deleted, last_record_lsn, v2_status, migrated_lsn,
                      v2_enabled, fault, cacheVars, open, lsn, pending_lsns,
                      pending_metadata_pages, pending_deletions, is_importing_pgdata,
                      held, done, life, nops, nreads>>

\* The import writer loading relations and their pages, flushing as it goes.
Importing == nops < MaxImportOps /\ lsn > last_record_lsn

NextImport ==
    \/ \E l \in Lsns : BeginForImport(l)
    \/ Abandon
    \/ Importing /\ \E n \in {1, FLUSH_THRESHOLD} : PutRelCreation(TheRel, n)
    \/ Importing /\ \E t \in {TheRel, InvalidTag}, blknum \in {0, 1} : PutRelPageImage(t, blknum, 1)
    \/ Importing /\ PutRelDrops({TheRel})
    \/ \E fail \in BOOLEAN : Flush(fail)
    \/ \E f \in {"none", "put_batch", "delete_batch"} : Commit(f)

SpecImport == Init /\ [][NextImport]_vars

\* ------------------------------------------------------------ ingest_batch
\* find_gaps as a function: the blocks of previous_nblocks..blkno whose key
\* this shard owns.
find_gaps(blkno, previous_nblocks, shard) ==
    {gap_blkno \in previous_nblocks..(blkno - 1) : GapIsOwned(shard, gap_blkno)}

\* The outcome of create_relation_if_required: the overlay it leaves and the
\* size it returns.
Required(cx, e, n) == [cx |-> cx, err |-> e, n |-> n]

\* create_relation_if_required, from its last statement to its first.
\* The relation exists: its size is returned, and cached by get_rel_size if
\* it was read from the store.
RequiredSized(cx, rel, size) ==
    IF size.err # "none" THEN Required(cx, size.err, 0)
    ELSE Required(IF size.fromStore
                  THEN [cx EXCEPT !.latest = update_latest(cx.latest, rel, lsn, size.n)]
                  ELSE cx,
                  "none", size.n)

\* The relation is missing: it is created empty.
RequiredCreated(created) == Required(created, created.err, 0)

\* The cache has no size for the relation: get_rel_exists decides.
RequiredUncached(cx, rel, exists) ==
    IF exists.err # "none" THEN Required(cx, exists.err, 0)
    ELSE IF ~exists.b THEN RequiredCreated(put_rel_creation(cx, rel, 0))
    ELSE RequiredSized(cx, rel,
                       get_rel_size(cx.pages, cx.latest, rel_size_snapshot_cache,
                                    cx.status, cx.mlsn, rel, Modified))

RequiredCached(cx, rel, cached) ==
    IF cached.some THEN Required(cx, "none", cached.n)
    ELSE RequiredUncached(cx, rel,
                          get_rel_exists(cx.pages, cx.latest, rel_size_snapshot_cache,
                                         cx.status, cx.mlsn, rel, Modified))

\* DatadirModification::create_relation_if_required
create_relation_if_required(cx, rel) ==
    RequiredCached(cx, rel,
                   get_cached_rel_size(cx.latest, rel_size_snapshot_cache, rel, Modified))

\* Faulty variant of the extension of ingest_batch: the relation is never
\* extended.
IngestExtend_never(cx, rel, new_nblocks, old_nblocks) == cx

\* if new_nblocks > old_nblocks { self.put_rel_extend(rel, new_nblocks) }
IngestExtend(cx, rel, new_nblocks, old_nblocks) ==
    IF new_nblocks > old_nblocks THEN put_rel_extend(cx, rel, new_nblocks) ELSE cx

\* The (key, LSN) pairs find_gaps yields for one block write.
IngestGaps(meta, old_nblocks, shard) ==
    {[key |-> rel_block_to_key(meta.tag, b), lsn |-> meta.lsn] :
        b \in find_gaps(meta.blkno, old_nblocks, shard)}

\* The body of `for meta in batch.metadata.iter()`.  st = [cx, gaps].
\* After the extension: the gaps below the block are collected.
IngestExtended(st, meta, shard, old_nblocks, ext) ==
    IF ext.err # "none" THEN [st EXCEPT !.cx = ext]
    ELSE [cx |-> ext, gaps |-> st.gaps \cup IngestGaps(meta, old_nblocks, shard)]

\* After create_relation_if_required.
IngestRequired(st, meta, shard, req) ==
    IF req.err # "none" THEN [st EXCEPT !.cx = [req.cx EXCEPT !.err = req.err]]
    ELSE IngestExtended(st, meta, shard, req.n,
                        IngestExtend(req.cx, meta.tag, meta.blkno + 1, req.n))

IngestOne(st, meta, shard) ==
    IngestRequired(st, meta, shard, create_relation_if_required(st.cx, meta.tag))

RECURSIVE IngestLoop(_, _, _)
IngestLoop(st, metas, shard) ==
    IF metas = <<>> \/ st.cx.err # "none" THEN st
    ELSE IngestLoop(IngestOne(st, Head(metas), shard), Tail(metas), shard)

\* The (key, LSN) pairs the batch itself writes.
BatchWrites(metas) ==
    {[key |-> rel_block_to_key(metas[i].tag, metas[i].blkno), lsn |-> metas[i].lsn] :
        i \in 1..Len(metas)}

\* DatadirModification::ingest_batch: the loop, batch.zero_gaps and the
\* extension of the pending data batch (a zero page has image 0, a page of
\* the batch image 1).
IngestData(st, metas) ==
    LET zeroed == {[key |-> g.key, lsn |-> g.lsn, img |-> 0] : g \in st.gaps}
        written == {[key |-> w.key, lsn |-> w.lsn, img |-> 1] : w \in BatchWrites(metas)}
    IN IF st.cx.err # "none" THEN st
       ELSE [st EXCEPT !.cx.data = @ \cup zeroed \cup written]

ingest_batch(cx, metas, shard) ==
    IngestData(IngestLoop([cx |-> cx, gaps |-> {}], metas, shard), metas)

\* The shards of the ingesting pageserver: unsharded, or the first of two
\* shards with the blocks striped one by one.
IngestShards ==
    {s \in ShardIdentities :
        s.count < 2 \/ (s.number = 0 /\ s.stripe_size = 1 /\ s.hash = [i \in Blknos |-> i % 2])}

BatchMetas(l) == [tag : ValidTags, blkno : 1..MaxBatchBlkno, lsn : {l}]
Batches(l) == UNION {[1..n -> BatchMetas(l)] : n \in 1..MaxMetas}

\* A decoded batch of block writes at the LSN of the modification is about
\* to be ingested.
IngestBatchCall(metas, shard) ==
    /\ open /\ frame.fn # "ingest_batch"
    /\ FrameStep([fn |-> "ingest_batch", batch |-> metas, shard |-> shard])

\* ingest_batch runs on the batch.
IngestBatch ==
    /\ frame.fn = "ingest_batch"
    /\ WriterStep(Op("ingest_batch", InvalidTag, 0, ""),
                  ingest_batch(Cx, frame.batch, frame.shard).cx)

\* The ingest writer taking batches of block writes.
Ingests == nops < MaxIngestOps /\ lsn > last_record_lsn

NextIngest ==
    \/ \E l \in Lsns : Begin(l)
    \/ Abandon
    \/ Ingests /\ \E metas \in Batches(lsn), shard \in IngestShards : IngestBatchCall(metas, shard)
    \/ Ingests /\ IngestBatch
    \/ Ingests /\ PutRelDrops({TheRel})
    \/ Commit("none")

SpecIngest == Init /\ [][NextIngest]_vars

\* ------------------------------------------------------------ properties
StrictlyIncreasing(q) == \A i \in 1..Len(q) : \A j \in 1..Len(q) : i < j => q[i] < q[j]

\* The LSNs the last commit passed to finish_write, in call order.
FinishWriteLsns(calls) ==
    LET fw == SelectSeq(calls, LAMBDA c : c.call = "finish_write")
    IN [i \in 1..Len(fw) |-> fw[i].arg]

CallsOf(calls, names) == {i \in 1..Len(calls) : calls[i].call \in names}

CommitOk == lastOp.op = "commit" /\ lastOp.res = "Ok"
CommitErr == lastOp.op = "commit" /\ lastOp.res = "Err"

\* Every pending page is stamped above the committed high-water mark.
PendingAboveCommitted ==
    \A k \in Keys : \A i \in 1..Len(pending_metadata_pages[k]) :
        pending_metadata_pages[k][i].lsn > last_record_lsn

\* What the transaction reads back: the size key through get(), and the
\* size and the existence of a relation through Version::Modified.
TxSize(rel) == ModGet(rel_size_to_key(rel))
TxRelSize(rel) ==
    get_rel_size(pending_metadata_pages, rel_size_latest_cache, rel_size_snapshot_cache,
                 v2_status, migrated_lsn, rel, Modified)
TxRelExists(rel) ==
    get_rel_exists(pending_metadata_pages, rel_size_latest_cache, rel_size_snapshot_cache,
                   v2_status, migrated_lsn, rel, Modified)

\* What a reader of committed storage is answered at effective LSN l.
ReaderExists(rel, l) ==
    get_rel_exists(pending_metadata_pages, rel_size_latest_cache, rel_size_snapshot_cache,
                   v2_status, migrated_lsn, rel, LsnRange(l, LsnMAX))
ReaderSize(rel, l) ==
    LET r == get_rel_size(pending_metadata_pages, rel_size_latest_cache,
                          rel_size_snapshot_cache, v2_status, migrated_lsn, rel,
                          LsnRange(l, LsnMAX))
    IN [err |-> r.err, n |-> r.n]
ReaderList(db, l) ==
    list_rels(pending_metadata_pages, v2_status, migrated_lsn, db, LsnRange(l, LsnMAX))
ReaderView(l) ==
    [exists |-> [t \in ValidTags |-> ReaderExists(t, l)],
     size |-> [t \in ValidTags |-> ReaderSize(t, l)],
     list |-> [d \in Dbs |-> ReaderList(d, l)]]

MetaPuts == [put_control_file |-> CONTROLFILE_KEY, put_checkpoint |-> CHECKPOINT_KEY]
RelPuts == {"put_rel_creation", "put_rel_extend", "put_rel_truncation", "put_rel_drops"}

\* What C1 asks of one step.
C1_ReadYourWritesStep ==
    /\ \A op \in DOMAIN MetaPuts :
          lastOp'.op = op => (ModGet(MetaPuts[op]))' = Ok(FileImage(lastOp'.n))
    /\ \A op \in DOMAIN MetaPuts :
          (/\ lastOp'.op \in (DOMAIN MetaPuts \cup {"set_lsn"}) \ {op}
           /\ pending_metadata_pages[MetaPuts[op]] # <<>>)
          => (ModGet(MetaPuts[op]))' = ModGet(MetaPuts[op])
    /\ \A k \in Keys :
          (open' /\ pending_metadata_pages'[k] = <<>>)
          => (ModGet(k))' = (TimelineGet(k, Max(last_record_lsn, lsn)))'

\* C1: inside an open modification, a get() of a metadata key right after a
\* put to it returns the image just put; later puts to other keys and
\* set_lsn calls leave what get() returns for a key with a pending image
\* unchanged; a key with no pending write is read from committed storage.
C1_ReadYourWrites == [][C1_ReadYourWritesStep]_vars

\* C1 witness: a control file put at a second LSN of one modification, read
\* back although an older pending value and a committed value both differ
\* from it.
C1_Witness ==
    LET q == pending_metadata_pages[CONTROLFILE_KEY]
        committed == TimelineGet(CONTROLFILE_KEY, Max(last_record_lsn, lsn))
    IN /\ lastOp.op = "put_control_file"
       /\ Len(q) = 2
       /\ q[1].val # q[2].val
       /\ ModGet(CONTROLFILE_KEY) = Ok(FileImage(lastOp.n))
       /\ committed.err = "none"
       /\ committed.v # FileImage(lastOp.n)

\* What C2 asks of one step.
C2_IsolationStep ==
    (lastOp'.op \in RelPuts /\ open /\ lsn > last_record_lsn)
    => \A l \in Lsns : l <= last_record_lsn => (ReaderView(l))' = ReaderView(l)

\* C2: a put_rel_creation, put_rel_extend, put_rel_truncation or
\* put_rel_drops call of a modification whose LSN is above last_record_lsn
\* changes no answer of get_rel_exists, get_rel_size and list_rels for a
\* reader at an effective LSN up to last_record_lsn, cache included.
C2_IsolationUntilCommit == [][C2_IsolationStep]_vars

\* What C3 asks of one step.
C3_FailedCommitStep ==
    CommitErr' =>
        /\ CallsOf(writerCalls', {"finish_write", "update_current_logical_size",
                                  "update_directory_entries_count"}) = {}
        /\ \E i \in CallsOf(writerCalls', {"put_batch", "delete_batch"}) :
              writerCalls'[i].arg = "Err"
        /\ UNCHANGED <<last_record_lsn, logical_size, dir_count>>
        /\ PendingAboveCommitted =>
              \A k \in Keys : \A l \in Lsns :
                  l <= last_record_lsn => TimelineGetIn(store', k, l) = TimelineGet(k, l)

\* C3: a commit that fails in put_batch or delete_batch has called neither
\* finish_write nor update_current_logical_size nor
\* update_directory_entries_count; last_record_lsn, the logical size and the
\* directory counters are unchanged, and what a reader of committed storage
\* sees at any LSN up to last_record_lsn is unchanged.
C3_CommitAtomicOnFailure == [][C3_FailedCommitStep]_vars

\* C3 witness: a commit whose put_batch succeeded and whose delete_batch
\* failed, in a modification that had block-count and directory updates.
C3_Witness ==
    /\ CommitErr
    /\ \E i \in CallsOf(writerCalls, {"delete_batch"}) : writerCalls[i].arg = "Err"
    /\ CallsOf(writerCalls, {"put_batch"}) # {}
    /\ pending_directory_entries # <<>>

\* What a successful commit must have called, given the LSNs it is to finish.
FinishedExactly(lsns) ==
    /\ FinishWriteLsns(writerCalls') = lsns
    /\ StrictlyIncreasing(lsns)
    /\ lsns[Len(lsns)] = lsn
    /\ \A i \in CallsOf(writerCalls', {"put_batch", "delete_batch"}) :
          /\ writerCalls'[i].arg = "Ok"
          /\ \A j \in CallsOf(writerCalls', {"finish_write"}) : i < j

\* C4 as stated: a successful commit calls finish_write once for every LSN
\* the modification has held since it was begun, in strictly increasing
\* order, ending with the current LSN, after the batches succeeded.
C4_FinishWriteSinceBegin == [][CommitOk' => FinishedExactly(Append(held, lsn))]_vars

\* C4 amended: a successful commit calls finish_write once for every LSN the
\* modification has held since it was begun or since its last successful
\* commit (each LSN set_lsn replaced since then, plus the current one), in
\* strictly increasing order, ending with the current LSN, and only after
\* put_batch and delete_batch have succeeded.
C4_FinishWriteSinceCommit ==
    [][CommitOk' => FinishedExactly(Append(SubSeq(held, done + 1, Len(held)), lsn))]_vars

\* C4 witness: a second successful commit of one modification that finished
\* two LSNs after a put_batch.
C4_Witness ==
    /\ CommitOk
    /\ done > 0
    /\ Len(FinishWriteLsns(writerCalls)) >= 2
    /\ CallsOf(writerCalls, {"put_batch"}) # {}

\* What C5 asks of one step.
C5_SetLsnStep ==
    /\ lastOp'.op = "set_lsn" =>
          /\ lastOp'.n < lsn =>
                lastOp'.res = "Err" /\ UNCHANGED <<lsn, pending_lsns>>
          /\ lastOp'.n > lsn =>
                /\ lastOp'.res = "Ok"
                /\ lsn' = lastOp'.n
                /\ pending_lsns' = Append(pending_lsns, lsn)
          /\ lastOp'.n = lsn =>
                lastOp'.res = "Ok" /\ UNCHANGED <<lsn, pending_lsns>>
    /\ (open /\ open') => lsn' >= lsn
    /\ StrictlyIncreasing(pending_lsns')
    /\ \A i \in 1..Len(pending_lsns') : pending_lsns'[i] < lsn'

\* C5: set_lsn(l) below the current LSN fails and changes neither the
\* current LSN nor the history; above it, the old LSN is appended to the
\* history and the current LSN becomes l; equal to it, nothing changes.  The
\* current LSN of a modification never decreases, and the history is
\* strictly increasing and strictly below the current LSN.
C5_SetLsn == [][C5_SetLsnStep]_vars

\* C5 witness: a set_lsn that advanced a modification already holding history.
C5_Witness ==
    /\ lastOp.op = "set_lsn" /\ lastOp.res = "Ok"
    /\ Len(pending_lsns) >= 1
    /\ pending_lsns[Len(pending_lsns)] < lsn

\* The directory the status makes authoritative lists rel, as the
\* transaction sees it.
ListedByTransaction(rel) ==
    LET dbdir == ModGet(DBDIR_KEY)
        v1 == get_rel_exists_in_reldir_v1(pending_metadata_pages, rel, Modified)
        v2 == get_rel_exists_in_reldir_v2(pending_metadata_pages, rel, Modified)
    IN /\ rel.relnode # 0
       /\ IF v2_status = "Migrated" THEN v2.err = "none" /\ v2.b
          ELSE /\ dbdir.err = "none" /\ DirContainsDb(dbdir.v.s, rel.db)
               /\ v1.err = "none" /\ v1.b

\* What C6 asks of one step.
C6_DuplicateCreationStep ==
    \A rel \in ValidTags :
        (/\ lastOp'.op = "put_rel_creation" /\ lastOp'.tag = rel
         /\ ListedByTransaction(rel))
        => /\ lastOp'.res = "RelationAlreadyExists"
           /\ pending_metadata_pages'[rel_size_to_key(rel)]
                 = pending_metadata_pages[rel_size_to_key(rel)]
           /\ (TxSize(rel))' = TxSize(rel)
           /\ rel_size_latest_cache'[rel] = rel_size_latest_cache[rel]
           /\ pending_nblocks' = pending_nblocks

\* C6: put_rel_creation for a relation the directory already lists, as seen
\* by the transaction, fails with RelationAlreadyExists and changes neither
\* the relation's pending size key, nor its cache entry, nor the block-count
\* delta.
C6_DuplicateCreation == [][C6_DuplicateCreationStep]_vars

\* C6 witness: a creation rejected for a relation created earlier in the
\* same uncommitted modification.
C6_Witness ==
    /\ lastOp.op = "put_rel_creation" /\ lastOp.res = "RelationAlreadyExists"
    /\ lastOp.tag \in ValidTags
    /\ life[lastOp.tag] = "created"
    /\ pending_nblocks > 0

\* What C7 asks of one step.
C7_ExtendStep ==
    \A rel \in ValidTags : \A old \in Sizes : \A n \in Sizes :
        (/\ lastOp'.op = "put_rel_extend" /\ lastOp'.tag = rel /\ lastOp'.n = n
         /\ TxSize(rel) = Ok(SizeImage(old)))
        => /\ lastOp'.res = "Ok"
           /\ (TxSize(rel))' = Ok(SizeImage(Max(old, n)))
           /\ n <= old => UNCHANGED <<pending_metadata_pages, rel_size_latest_cache,
                                      pending_nblocks>>
           /\ n > old =>
                 /\ pending_nblocks' = pending_nblocks + (n - old)
                 /\ rel_size_latest_cache'[rel] = [has |-> TRUE, lsn |-> lsn, nblocks |-> n]
           /\ (TxRelSize(rel).err = "none" /\ TxRelSize(rel).n = old)
              => ((TxRelSize(rel))'.err = "none" /\ (TxRelSize(rel))'.n = Max(old, n))

\* C7: put_rel_extend(rel, n) on a relation whose size key reads old leaves
\* the size key reading max(old, n); when n <= old it writes nothing (pending
\* writes, cache and block-count delta unchanged); when n > old the size key
\* and the cache entry hold n at the current LSN and the block-count delta
\* grows by n - old.  A get_rel_size through the transaction that agreed
\* with the size key before the call reads max(old, n) after it.
C7_ExtendNeverShrinks == [][C7_ExtendStep]_vars

\* C7 witness: an extension that grew a relation and one that was asked for
\* less than the relation has are both reachable; this is the second, on a
\* relation of nonzero size.
C7_Witness ==
    /\ lastOp.op = "put_rel_extend" /\ lastOp.res = "Ok"
    /\ lastOp.tag \in ValidTags
    /\ lastOp.n < lastOp.old
    /\ TxSize(lastOp.tag) = Ok(SizeImage(lastOp.old))
    /\ pending_nblocks = lastOp.nb

\* The relation exists and its size key is readable, as put_rel_truncation
\* finds them.
ExistsWithSize(rel, old) ==
    /\ TxRelExists(rel) = OkB(TRUE)
    /\ TxSize(rel) = Ok(SizeImage(old))

\* What C8 asks of one step.
C8_TruncationStep ==
    \A rel \in ValidTags : \A old \in Sizes : \A new \in Sizes :
        (/\ lastOp'.op = "put_rel_truncation" /\ lastOp'.tag = rel
         /\ ExistsWithSize(rel, old)
         /\ (TxSize(rel))' = Ok(SizeImage(new)))
        => /\ new <= old
           /\ new = old => pending_metadata_pages'[rel_size_to_key(rel)]
                              = pending_metadata_pages[rel_size_to_key(rel)]
           /\ pending_nblocks' = pending_nblocks + (new - old)

\* C8: put_rel_truncation(rel, n) on an existing relation leaves a size that
\* is at most the size before the call, writes the size key only if the new
\* size differs from the old one, and changes the block-count delta by new
\* size - old size.
C8_TruncationNeverGrows == [][C8_TruncationStep]_vars

\* What C9 asks of one step.
C9_RoundTripStep ==
    \A rel \in ValidTags :
        (/\ lastOp.op = "put_rel_truncation" /\ lastOp.res = "Ok" /\ lastOp.tag = rel
         /\ lastOp.n < lastOp.old
         /\ lastOp'.op = "put_rel_extend" /\ lastOp'.tag = rel /\ lastOp'.n = lastOp.old)
        => /\ lastOp'.res = "Ok"
           /\ (TxSize(rel))' = Ok(SizeImage(lastOp.old))
           /\ pending_nblocks' = lastOp.nb
           /\ TxRelExists(rel) = OkB(TRUE)
              => ((TxRelSize(rel))'.err = "none" /\ (TxRelSize(rel))'.n = lastOp.old)

\* C9: on a relation of size S, a put_rel_truncation to T < S followed by a
\* put_rel_extend to S leaves the size key reading S and the block-count
\* delta where it was before the truncation; if the relation exists, its
\* size through the transaction is S.
C9_TruncateExtendRoundTrip == [][C9_RoundTripStep]_vars

\* C9 witness: the relation was given size S at an earlier LSN of the
\* modification, nothing was dropped, and an extension has just taken it
\* from T < S back to S with the delta that of the creation alone.
C9_Witness ==
    LET q == pending_metadata_pages[rel_size_to_key(TheRel)]
    IN /\ lastOp.op = "put_rel_extend" /\ lastOp.res = "Ok" /\ lastOp.tag = TheRel
       /\ lastOp.old < lastOp.n
       /\ Len(q) = 2 /\ q[1].val = SizeImage(lastOp.n) /\ q[2].val = SizeImage(lastOp.n)
       /\ \A i \in 1..Len(pending_directory_entries) :
             pending_directory_entries[i][2] # "Sub"
       /\ TxRelSize(TheRel).n = lastOp.n
       /\ pending_nblocks = lastOp.n

\* What C10 asks of one step.
C10_CreateDropStep ==
    \A rel \in ValidTags :
        (CommitOk' /\ life[rel] = "undone")
        => /\ (ReaderExists(rel, last_record_lsn))' = OkB(FALSE)
           /\ rel \notin (ReaderList(rel.db, last_record_lsn))'.s
           /\ ~rel_size_latest_cache'[rel].has

\* C10: when a modification that created rel and then dropped it is
\* committed, get_rel_exists(rel) at the committed LSN is false, list_rels
\* does not contain rel and the latest cache has no entry for rel.
C10_CreateDropAbsent == [][C10_CreateDropStep]_vars

\* The sizes the transaction reads for the relations of tags, added up.
RECURSIVE SizeSum(_)
SizeSum(tags) ==
    IF tags = {} THEN 0
    ELSE LET t == CHOOSE x \in tags : TRUE
         IN (IF TxSize(t).err = "none" THEN TxSize(t).v.n ELSE 0) + SizeSum(tags \ {t})

\* The relations of the argument of the put_rel_drops call of this step that
\* the authoritative directory listed before the call.
DropsExisted == {t \in lastOp'.tags \cap ValidTags : ListedByTransaction(t)}

\* What C11 asks of one step.
C11_DropsStep ==
    (lastOp'.op = "put_rel_drops" /\ lastOp'.res = "Ok")
    => /\ \A t \in DropsExisted :
             /\ ~(ListedByTransaction(t))'
             /\ \E i \in 1..Len(pending_deletions') : pending_deletions'[i] = <<t, lsn>>
             /\ ~rel_size_latest_cache'[t].has
       /\ pending_nblocks' = pending_nblocks - SizeSum(DropsExisted)
       /\ DropsExisted = {}
          => UNCHANGED <<pending_metadata_pages, pending_deletions, pending_nblocks,
                         pending_directory_entries, rel_size_latest_cache>>

\* C11: in every migration state a put_rel_drops call that returns Ok has,
\* for each relation of its argument that existed, removed the directory
\* entry, queued a range delete stamped with the current LSN, decreased the
\* block-count delta by the size last known and evicted the cache entry; when
\* no relation of the argument existed, it has changed nothing.
C11_DropsEffects == [][C11_DropsStep]_vars

\* Legacy, then Migrating, then Migrated.
StatusRank(status) == IF status = "Legacy" THEN 0 ELSE IF status = "Migrating" THEN 1 ELSE 2

\* What C12 asks of one step.
C12_ForwardStep ==
    /\ StatusRank(v2_status') >= StatusRank(v2_status)
    /\ v2_status # "Legacy" => migrated_lsn' = migrated_lsn

\* C12: across every step the RelSizeMigration status stays or moves forward
\* (Legacy, Migrating, Migrated), and once the status has left Legacy
\* migrated_lsn is never changed again.
C12_StatusOnlyForward == [][C12_ForwardStep]_vars

\* A creation at a later LSN has run on a timeline that migrated earlier in
\* the run.
C12_Witness ==
    /\ v2_status = "Migrating" /\ migrated_lsn > InitLsn /\ lsn > migrated_lsn
    /\ lastOp.op = "put_rel_creation" /\ lastOp.res = "Ok"

\* The put_rel_creation of this step runs on a Legacy timeline with the
\* feature flag on, in a modification that is not an import.
TriggeringCreation ==
    /\ lastOp'.op = "put_rel_creation" /\ lastOp'.tag \in ValidTags
    /\ v2_status = "Legacy" /\ v2_enabled /\ ~is_importing_pgdata

\* What C13 asks of one step.
C13_TriggerStep ==
    TriggeringCreation => v2_status' = "Migrating" /\ migrated_lsn' = lsn

\* C13: a put_rel_creation of any relation on a Legacy timeline with the
\* feature flag on, outside an import, leaves the status Migrating and
\* migrated_lsn equal to the current LSN of the modification, also when the
\* relation is the first one of a database the DbDirectory does not list.
C13_FirstCreationMigrates == [][C13_TriggerStep]_vars

\* What C14 asks of one step.
C14_OnlyCreationStep ==
    (v2_status = "Legacy" /\ v2_status' # "Legacy")
    => /\ lastOp'.op = "put_rel_creation"
       /\ v2_enabled
       /\ ~is_importing_pgdata

\* C14: the status leaves Legacy only in a step of put_rel_creation, with the
\* feature flag on, in a modification that is not an import; never in a step
\* of put_relmap_file or put_rel_drops.
C14_MigrationOnlyInCreation == [][C14_OnlyCreationStep]_vars

\* An import has created a relation in a database that was already listed,
\* with the feature flag on, and the timeline is still Legacy.
C14_Witness ==
    /\ is_importing_pgdata /\ v2_enabled /\ v2_status = "Legacy"
    /\ lastOp.op = "put_rel_creation" /\ lastOp.res = "Ok"
    /\ \A t \in ValidTags : ListedByTransaction(t)

\* The versions a read may be made at: any committed LSN, as a latest or as
\* a snapshot request, and the open modification.
ReadVersions ==
    {LsnRange(l, r) : l \in {x \in Lsns : x <= last_record_lsn}, r \in {LsnMAX}}
        \cup {LsnRange(l, l) : l \in {x \in Lsns : x <= last_record_lsn}}
        \cup (IF open THEN {Modified} ELSE {})

\* get_rel_exists_in_reldir and list_rels as the timeline answers them now.
ExistsAt(rel, version) ==
    get_rel_exists_in_reldir(pending_metadata_pages, rel_size_latest_cache,
                             rel_size_snapshot_cache, v2_status, migrated_lsn, rel, version,
                             VersionGet(pending_metadata_pages, version, DBDIR_KEY))
ListAt(db, version) ==
    list_rels_traced(pending_metadata_pages, v2_status, migrated_lsn, db, version)
CacheAnswers(rel, version) ==
    get_cached_rel_size(rel_size_latest_cache, rel_size_snapshot_cache, rel, version).some

\* The answers of the two representations: the dense one is the DbDirectory
\* and the RelDirectory of the database, the sparse one the key of the
\* relation.
V1Exists(rel, version) ==
    LET buf == VersionGet(pending_metadata_pages, version, DBDIR_KEY)
    IN IF buf.err # "none" THEN ErrB(buf.err)
       ELSE IF ~DirContainsDb(buf.v.s, rel.db) THEN OkB(FALSE)
       ELSE get_rel_exists_in_reldir_v1(pending_metadata_pages, rel, version)
V2Exists(rel, version) == get_rel_exists_in_reldir_v2(pending_metadata_pages, rel, version)
V1List(db, version) == list_rels_v1(pending_metadata_pages, db, version)
V2List(db, version) == list_rels_v2(db, version)

\* The read policy uses v1 alone for this version.
ReadsBelow(version) ==
    v2_status = "Legacy" \/ Version_get_lsn(version) < migrated_lsn

ReadsBoth(version) ==
    v2_status = "Migrating" /\ Version_get_lsn(version) >= migrated_lsn

ReadsV2(version) ==
    v2_status = "Migrated" /\ Version_get_lsn(version) >= migrated_lsn

\* The value the sparse key of rel holds for this version, whether or not
\* the storage can currently read it: the last pending value for the open
\* modification, else the committed value visible at the LSN of the version.
SparseValue(rel, version) ==
    LET key == rel_tag_sparse_key(rel)
        l == IF version.kind = "Modified" THEN Max(last_record_lsn, lsn)
             ELSE version.effective_lsn
        have == {x \in Lsns : x <= l /\ store[key][x].t # "None"}
    IN IF version.kind = "Modified" /\ pending_metadata_pages[key] # <<>>
       THEN pending_metadata_pages[key][Len(pending_metadata_pages[key])].val
       ELSE IF have = {} THEN NoValue
       ELSE store[key][CHOOSE x \in have : \A y \in have : y <= x]
HoldsExists(rel, version) ==
    RelDirExists_decode_option(SparseValue(rel, version)) = "Exists"

\* The scan of list_rels_v2 meets a sparse key it cannot read or decode.
ScanFails(rel, version) ==
    \/ ScanSparse(rel, version).err \notin {"none", "MissingKey"}
    \/ /\ ScanSparse(rel, version).err = "none"
       /\ RelDirExists_decode(ScanSparse(rel, version).v) = "DecodeError"

\* C17: while the status is Migrated and the LSN of the read is at or above
\* migrated_lsn, get_rel_exists reports a relation and list_rels lists it
\* exactly when its sparse key holds Exists, whatever the v1 directory
\* holds, and a v2 read or decode error is returned to the caller.
C17_V2WhenMigrated ==
    \A version \in ReadVersions :
        ReadsV2(version)
        => /\ \A rel \in ValidTags :
                 /\ fault.kind = "none"
                    => /\ Untraced(ExistsAt(rel, version)) = OkB(TRUE)
                          <=> HoldsExists(rel, version)
                       /\ ListAt(rel.db, version).err = "none"
                       /\ rel \in ListAt(rel.db, version).s <=> HoldsExists(rel, version)
                 /\ (ExistsAt(rel, version).v2read /\ V2Exists(rel, version).err # "none")
                    => ExistsAt(rel, version).err = V2Exists(rel, version).err
                 /\ ScanFails(rel, version) => ListAt(rel.db, version).err # "none"

\* The step wrote the v1 RelDirectory key of some database / some sparse key.
WroteV1 ==
    \E d \in Dbs : pending_metadata_pages'[rel_dir_to_key(d)]
                        # pending_metadata_pages[rel_dir_to_key(d)]
WroteV2 ==
    \E t \in ValidTags : pending_metadata_pages'[rel_tag_sparse_key(t)]
                             # pending_metadata_pages[rel_tag_sparse_key(t)]

\* The step is a put_rel_creation that returned Ok, or a put_rel_drops that
\* returned Ok and had an existing relation to drop.
CreatedOrDropped ==
    /\ lastOp'.res = "Ok"
    /\ \/ lastOp'.op = "put_rel_creation"
       \/ lastOp'.op = "put_rel_drops" /\ DropsExisted # {}

\* What C18 asks of one step.  The status of a call is the one it runs its
\* writes under, v2_mode.current_status: the status the call leaves.
C18_WriteStep ==
    /\ lastOp'.op \in {"put_rel_creation", "put_rel_drops"}
       => /\ v2_status' = "Migrated" => ~WroteV1
          /\ v2_status' = "Legacy" => ~WroteV2
    /\ CreatedOrDropped
       => /\ v2_status' # "Migrated" => WroteV1
          /\ v2_status' # "Legacy" => WroteV2

V1Due ==
    \/ lastOp'.op = "put_rel_creation"
    \/ \E t \in lastOp'.tags \cap ValidTags : V1Exists(t, Modified) = OkB(TRUE)
V2Due ==
    \/ lastOp'.op = "put_rel_creation" /\ V2Exists(lastOp'.tag, Modified) = OkB(FALSE)
    \/ \E t \in lastOp'.tags \cap ValidTags : V2Exists(t, Modified) = OkB(TRUE)

\* What the amended C18 asks of one step.
C18_DueStep ==
    lastOp'.op \in {"put_rel_creation", "put_rel_drops"}
    => /\ v2_status' = "Migrated" => ~WroteV1
       /\ v2_status' = "Legacy" => ~WroteV2
       /\ (lastOp'.res = "Ok" /\ v2_status' # "Migrated" /\ V1Due) => WroteV1
       /\ (lastOp'.res = "Ok" /\ v2_status' # "Legacy" /\ V2Due) => WroteV2

V2WriteFails ==
    \/ lastOp'.op = "put_rel_creation" /\ V2Exists(lastOp'.tag, Modified) # OkB(FALSE)
    \/ /\ lastOp'.op = "put_rel_drops"
       /\ \E t \in lastOp'.tags \cap ValidTags : V2Exists(t, Modified).err # "none"

\* The v1 side of the call of this step succeeds.
V1WriteSucceeds ==
    \/ lastOp'.op = "put_rel_creation" /\ V1Exists(lastOp'.tag, Modified) = OkB(FALSE)
    \/ /\ lastOp'.op = "put_rel_drops"
       /\ ModGet(DBDIR_KEY).err = "none"
       /\ \A t \in lastOp'.tags : ModGet(rel_dir_to_key(t.db)).err = "none"

\* The effects of a creation and of a drop outside the v2 keyspace.
CreationTookEffect ==
    \A t \in {lastOp'.tag} :
        /\ V1Exists(t, Modified)' = OkB(TRUE)
        /\ TxSize(t)' = Ok(SizeImage(lastOp'.n))
        /\ rel_size_latest_cache'[t] = [has |-> TRUE, lsn |-> lsn, nblocks |-> lastOp'.n]
        /\ pending_nblocks' = pending_nblocks + lastOp'.n
DropsTookEffect ==
    LET existed == {t \in lastOp'.tags \cap ValidTags : V1Exists(t, Modified) = OkB(TRUE)}
    IN /\ \A t \in existed :
             /\ V1Exists(t, Modified)' = OkB(FALSE)
             /\ \E i \in 1..Len(pending_deletions') : pending_deletions'[i] = <<t, lsn>>
             /\ ~rel_size_latest_cache'[t].has
       /\ pending_nblocks' = pending_nblocks - SizeSum(existed)

\* What C19 asks of one step.
C19_FailingV2Step ==
    (lastOp'.op \in {"put_rel_creation", "put_rel_drops"} /\ V2WriteFails)
    => /\ v2_status' = "Migrated" => lastOp'.res # "Ok"
       /\ v2_status' = "Migrating"
          => /\ lastOp'.res = "Ok" <=> V1WriteSucceeds
             /\ lastOp'.res = "Ok"
                => /\ lastOp'.op = "put_rel_creation" => CreationTookEffect
                   /\ lastOp'.op = "put_rel_drops" => DropsTookEffect
                   /\ lastOp'.op = "put_rel_creation"
                      => pending_metadata_pages'[rel_tag_sparse_key(lastOp'.tag)]
                            = pending_metadata_pages[rel_tag_sparse_key(lastOp'.tag)]

\* C19: a put_rel_creation or put_rel_drops whose v2 write fails returns
\* the error when the status is Migrated; while Migrating it returns Ok
\* whenever its v1 side succeeds, and the v1 directory write, the size-key
\* write, the cache update and the block-count delta take effect although
\* the sparse key of the relation was not written.
C19_V2FailureFatalOnlyWhenMigrated == [][C19_FailingV2Step]_vars

\* A creation ran while Migrating on a sparse key that cannot be read: it
\* returned Ok with the v1 entry written and no sparse key.
C19_Witness ==
    /\ v2_status = "Migrating" /\ fault.kind = "io"
    /\ lastOp.op = "put_rel_creation" /\ lastOp.res = "Ok"
    /\ fault.key = rel_tag_sparse_key(lastOp.tag)
    /\ pending_metadata_pages[rel_tag_sparse_key(lastOp.tag)] = <<>>
    /\ pending_metadata_pages[rel_dir_to_key(lastOp.tag.db)] # <<>>

\* The v1 lookup and the v2 lookup give the same answer for every relation
\* at the version of the modification.
V1V2Agree == \A rel \in ValidTags : V1Exists(rel, Modified) = V2Exists(rel, Modified)

\* Every sparse key can be read and decoded at the version of the
\* modification.
V2Readable == \A rel \in ValidTags : V2Exists(rel, Modified).err = "none"

\* The step is a put_rel_creation or put_rel_drops that returned Ok and
\* left the status Migrating; it is the call that triggered the migration
\* when it found the status Legacy.
MigratingCallOk ==
    /\ lastOp'.op \in {"put_rel_creation", "put_rel_drops"}
    /\ lastOp'.res = "Ok"
    /\ v2_status' = "Migrating"
TriggeredMigration == v2_status = "Legacy"

\* What C20 asks of one step: the triggering call establishes the agreement
\* and every later call that returns Ok keeps it.
C20_AgreeStep ==
    (MigratingCallOk /\ (TriggeredMigration \/ V1V2Agree)) => V1V2Agree'

C20_ReadableStep ==
    (MigratingCallOk /\ V2Readable /\ (TriggeredMigration \/ V1V2Agree)) => V1V2Agree'

TakesInvalidRelnode ==
    \/ /\ lastOp'.op \in {"put_rel_creation", "put_rel_extend", "put_rel_truncation"}
       /\ lastOp'.tag.relnode = 0
    \/ lastOp'.op = "put_rel_drops" /\ \E t \in lastOp'.tags : t.relnode = 0

\* What C21 asks of one step, and of the reads in the state it starts from.
C21_RejectStep ==
    /\ TakesInvalidRelnode
       => /\ lastOp'.res # "Ok"
          /\ UNCHANGED <<pending_metadata_pages, pending_deletions, pending_nblocks,
                         pending_directory_entries, cacheVars>>
    /\ \A version \in ReadVersions :
          /\ get_rel_size(pending_metadata_pages, rel_size_latest_cache,
                          rel_size_snapshot_cache, v2_status, migrated_lsn, InvalidTag,
                          version).err # "none"
          /\ get_rel_exists(pending_metadata_pages, rel_size_latest_cache,
                            rel_size_snapshot_cache, v2_status, migrated_lsn, InvalidTag,
                            version).err # "none"

\* C21: every read and write path that takes a RelTag rejects relnode 0:
\* get_rel_size and get_rel_exists return an error at every version, and
\* put_rel_creation, put_rel_extend, put_rel_truncation and put_rel_drops
\* return an error and leave the pending state and the cache unchanged.
C21_RelnodeZeroRejected == [][C21_RejectStep]_vars

\* The block numbers a key space covers.
GapKeys(ranges) ==
    {b \in Blknos : \E i \in 1..Len(ranges) : ranges[i][1] <= b /\ b < ranges[i][2]}

\* The blocks of [previous_nblocks, blkno) the shard of the call owns.
OwnedGap ==
    {b \in Blknos : /\ frame.previous_nblocks <= b /\ b < frame.blkno
                    /\ get_shard_number(frame.shard, b) = frame.shard.number}

\* C22: find_gaps returns exactly the blocks of [previous_nblocks, blkno)
\* that the shard owns under the sharding function, and None when there is
\* none; for an unsharded identity that is the one range
\* [previous_nblocks, blkno), and None when blkno <= previous_nblocks.
C22_FindGapsExact ==
    (frame.fn = "find_gaps" /\ frame.returned)
    => /\ frame.some <=> OwnedGap # {}
       /\ GapKeys(frame.accum) = OwnedGap
       /\ \A i \in 1..Len(frame.accum) : frame.accum[i][1] < frame.accum[i][2]
       /\ frame.shard.count < 2
          => /\ frame.some <=> frame.previous_nblocks < frame.blkno
             /\ frame.some => frame.accum = <<(<<frame.previous_nblocks, frame.blkno>>)>>

\* find_gaps has returned two ranges for a shard that owns some blocks of
\* the range and not others.
C22_Witness ==
    /\ frame.fn = "find_gaps" /\ frame.returned
    /\ frame.shard.count = 2
    /\ Len(frame.accum) = 2
    /\ Cardinality(OwnedGap) < frame.blkno - frame.previous_nblocks

\* What get_vectored gave for the key of request i.
DeliveredFor(i) ==
    LET key == rel_block_to_key(frame.pages[i].tag, frame.pages[i].blknum)
        j == CHOOSE j \in 1..Len(frame.delivered) : frame.delivered[j].key = key
    IN frame.delivered[j].res

\* Request i is answered without the storage: by an error or the zero page.
ShortCircuit(i) ==
    LET req == frame.pages[i]
    IN IF req.tag.relnode = 0 THEN PageErr("InvalidRelnode")
       ELSE IF frame.sizes[req.lsn].err THEN PageErr("GetRelSize")
       ELSE IF req.blknum >= frame.sizes[req.lsn].n THEN ZERO_PAGE
       ELSE Uninit

\* An earlier request of the batch reads the same key from the storage.
IsDuplicate(i) ==
    \E h \in 1..(i - 1) :
        /\ ShortCircuit(h) = Uninit
        /\ frame.pages[h].tag = frame.pages[i].tag
        /\ frame.pages[h].blknum = frame.pages[i].blknum

\* The call has returned its vector: one slot per request, each written
\* once.
BatchReturned ==
    /\ frame.fn = "get_rel_page_at_lsn_batched" /\ frame.returned
BatchComplete ==
    /\ frame.phase = "returned"
    /\ frame.slots_filled = Len(frame.pages)
    /\ Len(frame.result) = Len(frame.pages)
    /\ \A i \in 1..Len(frame.pages) : frame.writes[i] = 1

\* C23: get_rel_page_at_lsn_batched returns one result per request in
\* request order, whatever the order the results of get_vectored are taken
\* in: the invalid-relnode error, the size-lookup error, the zero page at or
\* beyond the relation size, and otherwise the result the storage gave for
\* the key of the request; every slot is written exactly once.
C23_BatchedIndexStable ==
    BatchReturned
    => /\ BatchComplete
       /\ \A i \in 1..Len(frame.pages) :
             IF ShortCircuit(i) # Uninit THEN frame.result[i] = ShortCircuit(i)
             ELSE frame.failed = "none" => frame.result[i] = DeliveredFor(i)

\* C23 (amended): as above, except that of several requests of one key only
\* the first holds the result of the storage; the later ones hold a copy,
\* in which an error other than Cancelled is replaced by an Other error; and
\* when get_vectored fails as a whole every request that reached the
\* storage holds Cancelled or an Other error.
C23_BatchedIndexStableFirstOfKey ==
    BatchReturned
    => /\ BatchComplete
       /\ \A i \in 1..Len(frame.pages) :
             IF ShortCircuit(i) # Uninit THEN frame.result[i] = ShortCircuit(i)
             ELSE IF frame.failed # "none"
             THEN frame.result[i] = IF frame.failed = "Cancelled" THEN PageErr("Cancelled")
                                    ELSE PageErr("Other")
             ELSE IF IsDuplicate(i)
             THEN frame.result[i] = IF DeliveredFor(i).t = "Ok" THEN DeliveredFor(i)
                                    ELSE IF DeliveredFor(i).e = "Cancelled"
                                    THEN PageErr("Cancelled")
                                    ELSE PageErr("Other")
             ELSE frame.result[i] = DeliveredFor(i)

\* A batch returned in which the results of two keys were taken against
\* the request order and a third request repeats a key whose read failed.
C23_Witness ==
    /\ BatchReturned /\ frame.failed = "none"
    /\ Len(frame.delivered) = 2
    /\ frame.delivered[1].key = rel_block_to_key(frame.pages[2].tag, frame.pages[2].blknum)
    /\ frame.delivered[2].key = rel_block_to_key(frame.pages[1].tag, frame.pages[1].blknum)
    /\ IsDuplicate(3)
    /\ frame.result[3] = PageErr("Other")

\* ---- C24
\* The commits of the searched range, and those at or above the search
\* timestamp.
CommitsIn(f) == {l \in CommitLsns : f.min_lsn <= l /\ l <= f.max_lsn /\ f.commits[l].page # "none"}
LargerIn(f) == {l \in CommitsIn(f) : f.commits[l].ts >= f.search_timestamp}
SmallerIn(f) == CommitsIn(f) \ LargerIn(f)
\* The last LSN at which no commit at or above the search timestamp is visible.
BoundaryLsn(f) == (CHOOSE l \in LargerIn(f) : \A x \in LargerIn(f) : l <= x) - 1

ClassifiedByCommits(f, r) ==
    /\ r.kind # "Err"
    /\ r.kind = "NoData" <=> CommitsIn(f) = {}
    /\ r.kind = "Future" <=> (CommitsIn(f) # {} /\ LargerIn(f) = {})
    /\ r.kind = "Past" <=> (CommitsIn(f) # {} /\ SmallerIn(f) = {})
    /\ r.kind = "Present" <=> (SmallerIn(f) # {} /\ LargerIn(f) # {})
    /\ r.kind = "Present" => r.lsn = BoundaryLsn(f)

\* The search has run to the end of its loop and returns its classification.
SearchCompletes ==
    /\ frame.fn = "find_lsn_for_timestamp" /\ ~frame.returned
    /\ frame.low >= frame.high /\ frame'.returned

C24_LiteralStep == SearchCompletes => ClassifiedByCommits(frame', frame'.result)

\* C24: whenever find_lsn_for_timestamp completes its search, the result is
\* NoData when the searched range has no commit, Future when all its commits
\* are below the search timestamp, Past when all are at or above it, and
\* Present(L) when there are commits on both sides, L being the last LSN at
\* which no commit at or above the search timestamp is visible.
C24_ClassifiedByCommits == [][C24_LiteralStep]_vars

\* Commit timestamps do not decrease along the WAL, and no commit precedes
\* the searched range.
TimestampsOrdered(f) ==
    \A l1, l2 \in CommitLsns :
        (l1 < l2 /\ f.commits[l1].page # "none" /\ f.commits[l2].page # "none")
            => f.commits[l1].ts <= f.commits[l2].ts
AllCommitsInRange(f) == \A l \in CommitLsns : f.commits[l].page # "none" => l >= f.min_lsn

C24_OrderedStep ==
    (SearchCompletes /\ TimestampsOrdered(frame) /\ AllCommitsInRange(frame))
        => ClassifiedByCommits(frame', frame'.result)

\* C24 (amended): the classification of C24 holds whenever the commit
\* timestamps do not decrease with the LSN and every commit lies in the
\* searched range.
C24_ClassifiedByOrderedCommits == [][C24_OrderedStep]_vars

\* A completed search over ordered commits on both sides of the search
\* timestamp has returned Present.
C24_Witness ==
    /\ frame.fn = "find_lsn_for_timestamp" /\ frame.returned
    /\ frame.low >= frame.high /\ frame.probes >= 2
    /\ TimestampsOrdered(frame) /\ AllCommitsInRange(frame)
    /\ SmallerIn(frame) # {} /\ LargerIn(frame) # {}
    /\ frame.result.kind = "Present"

\* ---- C25
MaxOfLsns(a, b) == IF a >= b THEN a ELSE b

\* An iteration of the search that ends the call: by a failed probe or by
\* the cancellation check that precedes the probe.
C25_ProbeStep ==
    (frame.fn = "find_lsn_for_timestamp" /\ ~frame.returned /\ frame.low < frame.high
     /\ frame'.returned)
        => /\ frame.cancelled => frame'.result = LsnForTimestampErr("Cancelled")
           /\ (~frame.cancelled /\ frame'.probe_err = "MissingKey")
                 => frame'.result = LsnForTimestamp("Past", MaxOfLsns(frame.gc_cutoff, frame.ancestor_lsn))
           /\ (~frame.cancelled /\ frame'.probe_err = "Other")
                 => frame'.result = LsnForTimestampErr("Other")
           /\ ~frame.cancelled => frame'.probe_err # "none"

\* C25: a probe of find_lsn_for_timestamp that fails with MissingKey makes
\* the call return Ok(Past(max(gc_cutoff, ancestor_lsn))) whatever the
\* earlier probes found, any other probe error is returned unchanged, and an
\* iteration that starts with the cancellation token set returns Cancelled.
C25_ProbeFailures == [][C25_ProbeStep]_vars

\* A probe failed with MissingKey after an earlier probe had found a commit
\* below the search timestamp, and the call returned Past(min_lsn).
C25_Witness ==
    /\ frame.fn = "find_lsn_for_timestamp" /\ frame.returned
    /\ frame.probe_err = "MissingKey" /\ frame.probes >= 2 /\ frame.found_smaller
    /\ frame.ancestor_lsn > frame.gc_cutoff
    /\ frame.result = LsnForTimestamp("Past", frame.ancestor_lsn)

\* ---- C26
\* What the writer.* calls of commit and flush change.
CommittedSide == <<store, data_pages, deleted, last_record_lsn, logical_size, dir_count>>

C26_QuietStep ==
    lastOp'.op \notin {"commit", "flush"}
        => (writerCalls' = <<>> /\ UNCHANGED CommittedSide)

\* C26: a modification that is dropped without commit() and without flush()
\* has called none of put_batch, delete_batch, finish_write,
\* update_current_logical_size and update_directory_entries_count and has
\* left committed storage, last_record_lsn and the committed counters as
\* they were at begin_modification: every step from begin_modification to
\* the drop that is neither a commit nor a flush, the drop included, calls
\* nothing on the writer and changes none of them.
C26_DropWritesNothing == [][C26_QuietStep]_vars

\* A modification with pending writes was dropped on a timeline that has
\* never been written to.
C26_Witness ==
    /\ lastOp.op = "drop_modification" /\ ~open /\ nops >= 2
    /\ last_record_lsn = InitLsn /\ data_pages = {} /\ deleted = {}
    /\ logical_size = 0 /\ dir_count = [k \in DirKinds |-> 0]

\* ---- C27
Called(name) == \E i \in 1..Len(writerCalls') : writerCalls'[i].call = name

\* What flush leaves alone, and what it hands over only once.
FlushKeeps ==
    /\ UNCHANGED <<pending_metadata_pages, pending_deletions, pending_lsns, store, deleted,
                   last_record_lsn>>
    /\ \A k \in Keys : GetIn(pending_metadata_pages', k) = GetIn(pending_metadata_pages, k)
    /\ ~Called("finish_write") /\ ~Called("delete_batch")
    /\ Called("update_current_logical_size")
          => (pending_nblocks' = 0 /\ logical_size' = logical_size + pending_nblocks)
    /\ Called("update_directory_entries_count") => pending_directory_entries' = <<>>

C27_LiteralStep ==
    lastOp'.op = "flush" => (FlushKeeps /\ pending_data_batch' = {})

\* C27: after any call to flush() the pending metadata overlay is unchanged
\* and still readable by get(), the pending data batch is empty, flush has
\* called neither finish_write nor delete_batch, and the counter deltas it
\* handed to the writer are no longer pending for the later commit.
C27_FlushDrainsData == [][C27_LiteralStep]_vars

C27_ThresholdStep ==
    lastOp'.op = "flush"
        => /\ FlushKeeps
           /\ pending_nblocks >= FLUSH_THRESHOLD => pending_data_batch' = {}
           /\ pending_nblocks < FLUSH_THRESHOLD
                 => (writerCalls' = <<>> /\ UNCHANGED <<pending_data_batch, data_pages,
                         pending_nblocks, pending_directory_entries, logical_size, dir_count>>)

\* C27 (amended): as C27, but the pending data batch is emptied only by a
\* flush that finds at least FLUSH_THRESHOLD pending blocks; a flush below
\* the threshold calls nothing and changes nothing.
C27_FlushDrainsDataAboveThreshold == [][C27_ThresholdStep]_vars

\* A flush has handed the data batch and the deltas to the writer and kept
\* the metadata overlay.
C27_Witness ==
    /\ lastOp.op = "flush" /\ lastOp.res = "Ok" /\ open
    /\ Len(writerCalls) >= 3 /\ writerCalls[1].call = "put_batch"
    /\ HasPending(pending_metadata_pages)
    /\ pending_data_batch = {} /\ data_pages # {} /\ pending_nblocks = 0
    /\ logical_size >= FLUSH_THRESHOLD

\* ---- C28
\* The aux files the open modification sees, and the pair a put_file wrote.
AuxView == UNION {decode_file_value(ModGet(k).v) : k \in {x \in AuxKeys : ModGet(x).err = "none"}}
AuxAfterPut(files, path, content) ==
    {f \in files : f[1] # path} \cup (IF content # "" THEN {<<path, content>>} ELSE {})

C28_RoundTripStep ==
    /\ (lastOp'.op = "begin_modification")
          => AuxView' = list_aux_files_v2(store, last_record_lsn)
    /\ (lastOp'.op = "put_file" /\ lastOp'.res = "Ok")
          => \A f \in lastOp'.tags : AuxView' = AuxAfterPut(AuxView, f[1], f[2])
    /\ (lastOp'.op = "put_file" /\ lastOp'.res # "Ok") => AuxView' = AuxView
    /\ (lastOp'.op = "set_lsn") => AuxView' = AuxView
    /\ (lastOp'.op = "commit" /\ lastOp'.res = "Ok")
          => /\ list_aux_files_v2(store', lsn) = AuxView
             /\ last_record_lsn' = lsn
    /\ \A l \in Lsns : l <= last_record_lsn
          => list_aux_files_v2(store', l) = list_aux_files_v2(store, l)

\* C28: after a commit, list_aux_files at the commit LSN returns exactly the
\* (path, content) pairs last written for each path by the put_file calls
\* committed so far, without the paths whose last write had empty content,
\* and list_aux_files at an LSN committed earlier returns what it returned
\* before: a modification starts from the committed files, each put_file
\* replaces the pair of its path in what the modification sees, the commit
\* makes exactly that the listing at its LSN and changes no earlier listing.
C28_AuxFilesRoundTrip == [][C28_RoundTripStep]_vars

\* A second commit has replaced one file and removed another, and the
\* listing at the LSN of the first commit still shows both as first written.
C28_Witness ==
    /\ lastOp.op = "commit" /\ lastOp.res = "Ok"
    /\ \E l \in Lsns :
          /\ l < last_record_lsn
          /\ list_aux_files_v2(store, l) = {<<"foo/bar1", "content1">>, <<"foo/bar2", "content2">>}
    /\ list_aux_files_v2(store, last_record_lsn) = {<<"foo/bar1", "content2">>}

\* ---- C29
C29_MonotoneStep ==
    \A t \in ValidTags :
        (rel_size_latest_cache[t].has /\ rel_size_latest_cache'[t].has)
            => rel_size_latest_cache'[t].lsn >= rel_size_latest_cache[t].lsn

\* C29: while the latest relation size cache holds an entry for a relation,
\* no call of a reader or of the writer lowers the LSN stored in it.
C29_LatestCacheLsnMonotone == [][C29_MonotoneStep]_vars

\* ---- C30
\* The last pending value of the sparse key of (db, relnode, forknum) is the
\* Exists marker, written at LSN l.
PendingExistsAt(pages, db, rel, l) ==
    LET values == pages[MkKey("sparse", db, rel[1], rel[2])]
    IN /\ Len(values) > 0
       /\ values[Len(values)] = [lsn |-> l, val |-> RelDirExists_encode("Exists")]

\* The v1 entries the transaction sees: every (relnode, forknum) of the
\* RelDirectory of every database of the DbDirectory.
V1EntriesSeen ==
    {<<e[1], rel>> : e \in ModGet(DBDIR_KEY).v.s, rel \in {<<1, MAIN_FORKNUM>>, <<1, FSM_FORKNUM>>}}
        \cap {x \in Dbs \X ({1} \X {MAIN_FORKNUM, FSM_FORKNUM}) :
                 LET buf == ModGet(rel_dir_to_key(x[1]))
                 IN buf.err = "none" /\ x[2] \in buf.v.s}

InitializationSucceeds ==
    /\ lastOp'.op = "put_rel_creation"
    /\ v2_status = "Legacy" /\ v2_status' = "Migrating"

C30_CopyStep ==
    InitializationSucceeds
        => /\ migrated_lsn' = lsn
           /\ \A x \in V1EntriesSeen : PendingExistsAt(pending_metadata_pages', x[1], x[2], lsn)

\* C30: when put_rel_creation triggers the v2 initialization at LSN L and it
\* succeeds (the status becomes Migrating with migrated_lsn = L), the
\* overlay of the transaction holds an Exists image at L for the sparse key
\* of every (relnode, forknum) that the v1 RelDirectory of any database of
\* the DbDirectory listed when the call began.
C30_InitializationCopiesV1 == [][C30_CopyStep]_vars

\* An initialization has copied a relation that an import had created.
C30_Witness ==
    /\ lastOp.op = "put_rel_creation" /\ lastOp.res = "Ok"
    /\ v2_status = "Migrating" /\ migrated_lsn = lsn /\ open
    /\ \E t \in ValidTags :
          /\ t # lastOp.tag
          /\ TimelineGet(rel_dir_to_key(t.db), last_record_lsn).err = "none"
          /\ <<t.relnode, t.forknum>> \in TimelineGet(rel_dir_to_key(t.db), last_record_lsn).v.s
          /\ PendingExistsAt(pending_metadata_pages, t.db, <<t.relnode, t.forknum>>, lsn)

\* ---- C31
LsnsIncrease(values) ==
    \A i, j \in 1..Len(values) : i < j => values[i].lsn < values[j].lsn

\* What one put of `key` does to the pending values of the key.
ReplacedOrAppended(key) ==
    LET old == pending_metadata_pages[key]
        new == pending_metadata_pages'[key]
    IN IF Len(old) > 0 /\ old[Len(old)].lsn = lsn
       THEN /\ Len(new) = Len(old)
            /\ \A i \in 1..(Len(old) - 1) : new[i] = old[i]
            /\ new[Len(new)].lsn = lsn
       ELSE /\ Len(new) = Len(old) + 1
            /\ \A i \in 1..Len(old) : new[i] = old[i]
            /\ new[Len(new)].lsn = lsn

C31_PutStep ==
    /\ \A k \in Keys : LsnsIncrease(pending_metadata_pages'[k])
    /\ (lastOp'.op = "put_control_file" /\ lastOp'.res = "Ok")
          => ReplacedOrAppended(CONTROLFILE_KEY)
    /\ (lastOp'.op = "put_checkpoint" /\ lastOp'.res = "Ok")
          => ReplacedOrAppended(CHECKPOINT_KEY)
    /\ (lastOp'.op = "commit" /\ \E i \in 1..Len(writerCalls') :
                                      writerCalls'[i].call = "put_batch" /\ writerCalls'[i].arg = "Ok")
          => store' = PutBatch(store, pending_metadata_pages)

\* C31: the pending values of every key have strictly increasing LSNs: a put
\* at the LSN of the key's last pending value replaces it in place, a put at
\* a higher LSN appends, so no key has two pending values at one LSN and
\* the batch commit hands to the writer is in LSN order per key.
C31_PendingLsnsIncrease == [][C31_PutStep]_vars

\* A key holds two pending values at two LSNs after a write at the second
\* LSN replaced an earlier write at that LSN.
C31_Witness ==
    /\ open /\ lastOp.op = "put_control_file" /\ lastOp.res = "Ok"
    /\ Len(pending_metadata_pages[CONTROLFILE_KEY]) = 2
    /\ pending_metadata_pages[CONTROLFILE_KEY][2].lsn = lsn
    /\ nops >= 3

\* ---- C32
\* Existence and size of a relation as the open modification reads them.
ModExists(tag) ==
    get_rel_exists(pending_metadata_pages, rel_size_latest_cache, rel_size_snapshot_cache,
                   v2_status, migrated_lsn, tag, Modified)
ModSize(tag) ==
    get_rel_size(pending_metadata_pages, rel_size_latest_cache, rel_size_snapshot_cache,
                 v2_status, migrated_lsn, tag, Modified)
SizeBefore(tag) ==
    IF ModExists(tag).err = "none" /\ ModExists(tag).b /\ ModSize(tag).err = "none"
    THEN ModSize(tag).n ELSE 0

NamedBy(metas, tag) == \E i \in 1..Len(metas) : metas[i].tag = tag
HighestBlock(metas, tag) ==
    LET blknos == {metas[i].blkno : i \in {x \in 1..Len(metas) : metas[x].tag = tag}}
    IN CHOOSE b \in blknos : \A x \in blknos : x <= b

IngestSucceeds == lastOp'.op = "ingest_batch" /\ lastOp'.res = "Ok"

C32_IngestStep ==
    IngestSucceeds
        => \A tag \in ValidTags :
              IF NamedBy(frame.batch, tag)
              THEN /\ ModExists(tag)' = OkB(TRUE)
                   /\ ModSize(tag)'.err = "none"
                   /\ ModSize(tag)'.n = Max(SizeBefore(tag), 1 + HighestBlock(frame.batch, tag))
              ELSE /\ ModSize(tag)'.err = ModSize(tag).err
                   /\ ModSize(tag)'.n = ModSize(tag).n

C38_DisjointStep ==
    lastOp'.op = "ingest_batch"
        => ingest_batch(Cx, frame.batch, frame.shard).gaps \cap BatchWrites(frame.batch) = {}

\* C38: whatever the order of the block numbers in the batch, no (block
\* key, LSN) pair that ingest_batch schedules for zero-filling is a pair the
\* batch itself writes.
C38_GapsDisjointFromWrites == [][C38_DisjointStep]_vars

\* ---- C33
PutBatchFailed ==
    /\ lastOp'.op \in {"commit", "flush"} /\ lastOp'.res = "Err"
    /\ \E i \in 1..Len(writerCalls') :
          writerCalls'[i].call = "put_batch" /\ writerCalls'[i].arg = "Err"

C33_BailOutStep ==
    PutBatchFailed
        => UNCHANGED <<pending_metadata_pages, pending_data_batch, pending_nblocks>>

\* C33: a commit or a flush in which put_batch fails leaves the pending
\* metadata writes, the pending data batch and the pending block-count
\* delta as they were before the call.
C33_FailedPutBatchKeepsPending == [][C33_BailOutStep]_vars

\* ---- C34
\* Whether the relation was in the committed relation directory at lsn.
InDirectoryAt(tag, l) ==
    get_rel_exists(EmptyPages, [t \in ValidTags |-> NoEntry], {},
                   v2_status, migrated_lsn, tag, LsnRange(l, l))

\* The reader's update_cached_rel_size, for a size it read at an LSN where
\* the relation existed, running after the writer dropped the relation at a
\* later LSN and evicted its cache entry.
UpdateAfterDrop ==
    /\ lastOp'.op = "update_cached_rel_size"
    /\ frame.fn = "get_rel_size"
    /\ InDirectoryAt(frame.tag, frame.lsn) = OkB(TRUE)
    /\ frame.lsn < lsn
    /\ InDirectory(frame.tag) = OkB(FALSE)
    /\ ~rel_size_latest_cache[frame.tag].has

C34_RaceStep == UpdateAfterDrop => ~rel_size_latest_cache'[TheRel].has

\* C34: whatever the interleaving of a reader running get_rel_size for a
\* relation (storage read at an LSN, then update_cached_rel_size) with the
\* writer dropping the relation at a later LSN, the latest cache holds no
\* entry for the relation once the drop has evicted it and until the
\* relation is created again, so that get_rel_exists at or after the drop
\* is not answered from the cache.
C34_NoEntryAfterDrop == [][C34_RaceStep]_vars

\* ---- C35
\* The LSN as of which get_vectored reconstructed the page a slot was given.
ReadAt(slot) ==
    LET key == rel_block_to_key(frame.pages[slot].tag, frame.pages[slot].blknum)
        j == CHOOSE j \in 1..Len(frame.delivered) : frame.delivered[j].key = key
    IN frame.delivered[j].at

GivenPage(slot) == frame.result[slot].t = "Ok" /\ frame.result[slot].key # NoKey

\* C35: when two requests of a batch name the same relation block at
\* different effective LSNs, get_rel_page_at_lsn_batched returns, without
\* panicking, to each of them the page as of its own effective LSN.
C35_PagePerLsn ==
    frame.fn = "get_rel_page_at_lsn_batched" /\ frame.returned
    => /\ frame.phase = "returned"
       /\ \A slot \in 1..Len(frame.pages) :
             GivenPage(slot) => ReadAt(slot) = frame.pages[slot].lsn

\* ---- C36
\* The modification is dropped with nothing of it committed.
DroppedUncommitted ==
    /\ open /\ ~open'
    /\ lsn > last_record_lsn
    /\ frame.fn = "begin_modification"

C36_DropStep ==
    DroppedUncommitted =>
        /\ rel_size_latest_cache' = frame.latest
        /\ rel_size_snapshot_cache' = frame.snapshot
        /\ v2_status' = frame.status
        /\ migrated_lsn' = frame.migrated_lsn

\* C36: a modification dropped without commit() leaves the relation size
\* cache, the RelSizeMigration status and migrated_lsn of the timeline as
\* they were before begin_modification, whatever put_rel_creation,
\* put_rel_extend, put_rel_truncation and put_rel_drops calls it made.
C36_DroppedLeavesNoTrace == [][C36_DropStep]_vars

\* ---- C37
\* The sizes of the relations the relation directory of the database lists,
\* as the modification reads them before the call.
ListedRels(db) == list_rels(pending_metadata_pages, v2_status, migrated_lsn, db, Modified).s

RECURSIVE SumOfSizes(_)
SumOfSizes(rels) ==
    IF rels = {} THEN 0
    ELSE LET t == CHOOSE t \in rels : TRUE
         IN get_rel_size(pending_metadata_pages, rel_size_latest_cache,
                         rel_size_snapshot_cache, v2_status, migrated_lsn, t, Modified).n
            + SumOfSizes(rels \ {t})

DropDbdirSucceeds == lastOp'.op = "drop_dbdir" /\ lastOp'.res = "Ok"

C37_DropStep ==
    DropDbdirSucceeds =>
        /\ \A t \in ValidTags :
              t.db = lastOp'.tag.db =>
                 get_rel_exists(pending_metadata_pages', rel_size_latest_cache',
                                rel_size_snapshot_cache', v2_status', migrated_lsn',
                                t, Modified) = OkB(FALSE)
        /\ pending_nblocks' = pending_nblocks - SumOfSizes(ListedRels(lastOp'.tag.db))

\* C37: after drop_dbdir in a modification, get_rel_exists through
\* Version::Modified answers false for every relation of the database, the
\* relations whose size is in the latest cache included, and the block
\* count delta has gone down by the sum of the sizes of those relations.
C37_DropDbdirHidesRelations == [][C37_DropStep]_vars

\* ---- C39
\* An iteration of the loop that goes on to the next one.
Iterates ==
    /\ FindLsnRunning
    /\ frame'.probes = frame.probes + 1
    /\ ~frame'.returned

\* The search leaves the loop and returns an LSN.
ReturnsLsn ==
    /\ FindLsnRunning
    /\ frame'.returned
    /\ frame'.result.err # "Cancelled"
    /\ frame'.probe_err = "none"

C39_SearchStep ==
    /\ Iterates => /\ frame'.high - frame'.low < frame.high - frame.low
                   /\ frame'.high - frame'.low >= 0
    /\ ReturnsLsn => /\ frame.low >= 1
                     /\ frame'.result.err = "none"
                     /\ frame'.result.lsn >= frame.min_lsn
                     /\ frame'.result.lsn <= frame.max_lsn
    /\ (FindLsnRunning /\ frame'.returned /\ frame'.result.err = "none")
          => /\ frame'.result.lsn >= frame.min_lsn
             /\ frame'.result.lsn <= frame.max_lsn

\* C39: for every min_lsn = max(gc_cutoff, ancestor_lsn), min_lsn below 8
\* included, and every outcome of the probes, the binary search of
\* find_lsn_for_timestamp terminates (high - low shrinks with every
\* iteration), (low - 1) * 8 does not underflow the unsigned 64-bit range,
\* and the LSN returned lies between min_lsn and the last record LSN.
C39_SearchBoundedAndTotal == [][C39_SearchStep]_vars

C39_Witness ==
    /\ frame.fn = "find_lsn_for_timestamp" /\ frame.returned
    /\ frame.min_lsn = 0
    /\ frame.probes >= 2
    /\ frame.result.kind = "Present"
    /\ frame.result.lsn = 1

\* ---- C40
\* put_rel_creation ran the v2 keyspace initialization, the initialization
\* failed, and the call went on and returned Ok.
InitializationFailed ==
    /\ lastOp'.op = "put_rel_creation" /\ lastOp'.res = "Ok"
    /\ open /\ lsn > last_record_lsn
    /\ v2_status = "Legacy" /\ v2_enabled /\ ~is_importing_pgdata
    /\ v2_status' = "Legacy"

CreatedInV1(pages, tag) ==
    LET buf == GetIn(pages, rel_dir_to_key(tag.db))
    IN buf.err = "none" /\ <<tag.relnode, tag.forknum>> \in buf.v.s

C40_FailedInitStep ==
    InitializationFailed =>
        /\ CreatedInV1(pending_metadata_pages', lastOp'.tag)
        /\ \A k \in SparseKeys : pending_metadata_pages'[k] = pending_metadata_pages[k]

\* C40: when the v2 keyspace initialization that put_rel_creation starts
\* fails partway, the status stays Legacy, the relation is created through
\* the v1 path only, and no sparse v2 key the failed initialization wrote
\* remains pending in the modification.
C40_FailedInitLeavesNoV2Key == [][C40_FailedInitStep]_vars
====
